---- MODULE Spec2Model ----
(***************************************************************************)
(* State-machine model of net_manager.c: the unified event handler, the    *)
(* interface bring-up / tear-down sequences and the public API, together   *)
(* with the component mutex that serialises them.                          *)
(***************************************************************************)
EXTENDS Integers, Sequences, FiniteSets, TLC

(* ---------------- bounds of the model ---------------- *)
MaxRetry    == 3   \* longest streak of retries explored when retries are unlimited
MaxStreak   == 33  \* longest streak of retries explored for the backoff arithmetic
MaxM        == 3   \* largest configured CONFIG_NET_MANAGER_STA_RECONNECT_ATTEMPTS explored
MaxIp       == 1   \* number of distinct non-zero address values
MaxClients  == 2   \* AP client joins explored above a counter value
MaxEthDevs  == 1   \* physical Ethernet devices ethernet_init_all() may detect
MaxBlobLen  == 4   \* longest blob the configuration store may hold, in fields

(* ---------------- program constants ---------------- *)
NULL == 0

\* net_status_t
NET_STATUS_UNINITIALIZED       == 0
NET_STATUS_STOPPED             == 1
NET_STATUS_STARTED             == 2
NET_STATUS_CONNECTING          == 3
NET_STATUS_CONNECTED           == 4
NET_STATUS_DISCONNECTED        == 5
NET_STATUS_WAITING_FOR_RECONNECT == 6
NET_STATUS_CLIENT_CONNECTED    == 7
NET_STATUS_CLIENT_DISCONNECTED == 8

\* net_event_source_t
NET_EVENT_SOURCE_STA      == 0
NET_EVENT_SOURCE_AP       == 1
NET_EVENT_SOURCE_ETHERNET == 2

\* the non-null values the three attachment handles take, and a foreign netif
NETIF_STA   == 1
NETIF_AP    == 2
NETIF_ETH   == 3
NETIF_OTHER == 4

\* base of the backoff, in milliseconds: vTaskDelay(pdMS_TO_TICKS(1000 << n))
BASE_DELAY_MS == 1000

\* uint8_t ap_connected_clients counts modulo U8; int ends at INT_MAX
U8      == 256
INT_MAX == 2147483647
INT_BITS == 32

MUTEX == 1          \* the non-null semaphore handle
NOBODY == "nobody"  \* the mutex is free

EVT      == "evt"                  \* the event-loop task running event_handler
AppTasks == {"app1"}               \* the task that owns the component's lifecycle
AuxTasks == {"app2"}               \* a second task of the application
ApiTasks == AppTasks \cup AuxTasks \* tasks calling the public API
Tasks    == ApiTasks \cup {EVT}

Callbacks == {NULL, 1}             \* net_event_callback_t values given to init

Interfaces == { "sta", "ap", "eth" }

\* the drivers that raise events in one run of the model
Environments == { { i } : i \in Interfaces }

(* ---------------- state ---------------- *)
VARIABLES
  s_is_initialized,     \* static bool s_is_initialized
  s_component_mutex,    \* static SemaphoreHandle_t s_component_mutex
  owner,                \* task holding the mutex, or NOBODY
  s_netif_sta, s_netif_ap, s_netif_eth,   \* attachment handles
  s_eth_handles, s_eth_handles_num,       \* Ethernet driver handles
  s_status,             \* net_manager_status_t s_status
  s_user_callback,      \* the single subscriber
  s_sta_retry_count,    \* static int s_sta_retry_count
  max_retries,          \* CONFIG_NET_MANAGER_STA_RECONNECT_ATTEMPTS of this build
  registered,           \* event_handler is subscribed to WIFI/IP/ETH events
  wifi_drv,             \* radio subsystem: "deinit", "init", "started", "stopped"
  eth_drv,              \* Ethernet driver started
  cfg,                  \* the local cfg of the net_manager_start in progress
  pc,                   \* position of every task
  cur,                  \* raw event the event task is handling
  emitted,              \* events given to the subscriber by the current handler run
  calls,                \* driver calls made by the current handler run / API body
  delays,               \* backoff waits (ms) of the current streak of retries
  up,                   \* interfaces of env the latest net_manager_start brought up
  env,                  \* interfaces whose drivers raise events in this run of the model
  phase,                \* "running" from a start on, "stopped" once a stop has returned
  ret,                  \* result of each API task's latest call
  out,                  \* locals of the query in progress: its result, the handle it read
  nvs,                  \* the entry of the configuration store: found, and its blob
  kconfig,              \* the compiled-in default configuration of this build
  aborted               \* an assert() failed: the firmware is gone

vars == << s_is_initialized, s_component_mutex, owner, s_netif_sta, s_netif_ap,
           s_netif_eth, s_eth_handles, s_eth_handles_num, s_status,
           s_user_callback, s_sta_retry_count, max_retries, registered,
           wifi_drv, eth_drv, cfg, pc, cur, emitted, calls, delays,
           up, env, out, nvs, kconfig, phase, ret, aborted >>

\* the program's own globals (everything but the observers)
globals == << s_is_initialized, s_component_mutex, s_netif_sta, s_netif_ap,
              s_netif_eth, s_eth_handles, s_eth_handles_num, s_status,
              s_user_callback, s_sta_retry_count >>

\* memset(&s_status, 0, sizeof(s_status))
ZeroStatus ==
  [ sta_status |-> NET_STATUS_UNINITIALIZED,
    ap_status  |-> NET_STATUS_UNINITIALIZED,
    eth_status |-> NET_STATUS_UNINITIALIZED,
    sta_ip_info |-> 0, ap_ip_info |-> 0, eth_ip_info |-> 0,
    ap_connected_clients |-> 0 ]

\* net_manager_config_t, reduced to the three enable flags
Configs == [ wifi_sta_enabled : BOOLEAN, wifi_ap_enabled : BOOLEAN,
             ethernet_enabled : BOOLEAN ]

NoConfig == [ wifi_sta_enabled |-> FALSE, wifi_ap_enabled |-> FALSE,
              ethernet_enabled |-> FALSE ]

\* the status queries, and what a query hands back: the record memcpy'd by
\* net_manager_get_status or the bool computed by the is_*_connected pair
QueryFns == { "get_status", "is_sta_connected", "is_eth_connected" }

NoOut == [ fn |-> "none", status |-> ZeroStatus, connected |-> FALSE, netif |-> NULL ]

\* the queries that read an attachment handle without taking the lock; netif
\* of a query in progress is the handle it read
HandleFns == { "get_ip_info", "get_dns_info", "get_ap_clients_list" }

Sources == { NET_EVENT_SOURCE_STA, NET_EVENT_SOURCE_AP, NET_EVENT_SOURCE_ETHERNET }

\* The memory image of a net_manager_config_t: its leading members, in the
\* order the struct declares them.
Image(c) == << c.wifi_sta_enabled, c.wifi_ap_enabled, c.ethernet_enabled >>

\* the net_manager_config_t a memory image is read as
ConfigOf(b) == [ wifi_sta_enabled |-> b[1], wifi_ap_enabled |-> b[2],
                 ethernet_enabled |-> b[3] ]

\* sizeof(net_manager_config_t), in fields of the image
CfgSize == Len(Image(NoConfig))

\* The configuration store: what nvs_open answers, whether an entry exists
\* under NVS_CONFIG_KEY, and the blob stored there.  The blob may come from a
\* firmware whose net_manager_config_t had another size.
OpenOutcomes == { "ESP_OK", "ESP_ERR_NVS_NOT_INITIALIZED" }

Blobs == UNION { [ 1 .. n -> BOOLEAN ] : n \in 1 .. MaxBlobLen }

Stores == { [ open |-> o, found |-> FALSE, blob |-> << >> ] : o \in OpenOutcomes }
            \cup { [ open |-> o, found |-> TRUE, blob |-> b ] :
                      o \in OpenOutcomes, b \in Blobs }

\* the configuration store holds no entry under NVS_CONFIG_KEY
NoEntry == [ open |-> "ESP_OK", found |-> FALSE, blob |-> << >> ]

NoEvent == [ base |-> "NONE", id |-> "NONE", netif |-> NULL, ip |-> 0 ]

\* The builds explored: the retry limit is read by the STA disconnect branch
\* alone, so it is varied where the station's driver raises events.
RetryLimits(e) == IF "sta" \in e THEN -1 .. MaxM ELSE { 0 }

\* static initialisers of net_manager.c
InitProgram ==
  /\ s_is_initialized = FALSE
  /\ s_component_mutex = NULL
  /\ owner = NOBODY
  /\ s_netif_sta = NULL /\ s_netif_ap = NULL /\ s_netif_eth = NULL
  /\ s_eth_handles = NULL /\ s_eth_handles_num = 0
  /\ s_status = ZeroStatus
  /\ s_user_callback = NULL
  /\ s_sta_retry_count = 0
  /\ registered = FALSE
  /\ wifi_drv = "deinit"
  /\ eth_drv = FALSE
  /\ cfg = NoConfig
  /\ pc = [ t \in Tasks |-> "idle" ]
  /\ cur = NoEvent
  /\ emitted = << >>
  /\ calls = << >>
  /\ delays = << >>
  /\ up = { }
  /\ phase = "boot"
  /\ ret = [ t \in ApiTasks |-> "none" ]
  /\ out = NoOut
  /\ aborted = FALSE

\* The firmware with its drivers: one interface's drivers raise events, the
\* configuration store is empty and every start is handed a configuration.
Init ==
  /\ InitProgram
  /\ env \in Environments
  /\ max_retries \in RetryLimits(env)
  /\ nvs = NoEntry
  /\ kconfig = NoConfig

\* The firmware with its configuration store: any store content, any
\* compiled-in defaults, no driver raising events.
InitNvs ==
  /\ InitProgram
  /\ env = { }
  /\ max_retries = 0
  /\ nvs \in Stores
  /\ kconfig \in Configs


(* ---------------- helpers ---------------- *)

\* int arithmetic of the target: 32 bit, two's complement
Inc32(x) == IF x = INT_MAX THEN (-INT_MAX) - 1 ELSE x + 1

Dbl32(x) == IF x > INT_MAX \div 2 THEN 2 * ((x - INT_MAX) - 1)
            ELSE IF x < -(INT_MAX \div 2) - 1 THEN 2 * ((x + INT_MAX) + 1)
            ELSE 2 * x

RECURSIVE Shl32(_, _)
Shl32(x, n) == IF n = 0 THEN x ELSE Shl32(Dbl32(x), n - 1)

\* a raised assert() ends the firmware: nothing runs afterwards
Alive == ~aborted

\* a build whose asserts are compiled out
assert_compiled_out == TRUE

\* assert(s_is_initialized) at the top of every function of the public API
\* but init and deinit (the pointer arguments are taken to be valid)
assert_initialized == s_is_initialized

\* net_manager_event_t handed to the subscriber
Ev(source, status, data) == [ source |-> source, status |-> status, data |-> data ]

\* if (s_user_callback) s_user_callback(&event_to_dispatch);
Dispatch(em, ev) == IF s_user_callback # NULL THEN Append(em, ev) ELSE em

\* UNLOCK(): xSemaphoreGive(s_component_mutex)
Unlocked(t) == IF owner = t THEN NOBODY ELSE owner

(* ---------------- stop_all_interfaces ---------------- *)

\* bool wifi_active = (s_netif_sta || s_netif_ap)
wifi_active == (s_netif_sta # NULL \/ s_netif_ap # NULL)

\* a teardown that destroys the Wi-Fi attachment handles before stopping the
\* radio they are bound to
stop_calls_netif_first ==
  LET c_eth  == IF s_netif_eth # NULL THEN << "esp_netif_destroy(eth)" >> ELSE << >>
      c_ethh == IF s_eth_handles # NULL THEN << "ethernet_deinit_all" >> ELSE << >>
      c_sta  == IF s_netif_sta # NULL THEN << "esp_netif_destroy(sta)" >> ELSE << >>
      c_ap   == IF s_netif_ap # NULL THEN << "esp_netif_destroy(ap)" >> ELSE << >>
      c_wifi == IF wifi_active
                THEN c_sta \o c_ap \o << "esp_wifi_stop", "esp_wifi_deinit" >>
                ELSE << >>
  IN c_eth \o c_ethh \o c_wifi

\* the driver calls of stop_all_interfaces(), in the order it makes them
stop_calls ==
  LET c_eth  == IF s_netif_eth # NULL THEN << "esp_netif_destroy(eth)" >> ELSE << >>
      c_ethh == IF s_eth_handles # NULL THEN << "ethernet_deinit_all" >> ELSE << >>
      c_sta  == IF s_netif_sta # NULL THEN << "esp_netif_destroy(sta)" >> ELSE << >>
      c_ap   == IF s_netif_ap # NULL THEN << "esp_netif_destroy(ap)" >> ELSE << >>
      c_wifi == IF wifi_active
                THEN << "esp_wifi_stop", "esp_wifi_deinit" >> \o c_sta \o c_ap
                ELSE << >>
  IN c_eth \o c_ethh \o c_wifi

\* a teardown that sets the three statuses but skips the memset
stop_status_info_kept ==
  [ s_status EXCEPT !.sta_status = NET_STATUS_STOPPED,
                    !.ap_status  = NET_STATUS_STOPPED,
                    !.eth_status = NET_STATUS_STOPPED ]

\* memset(&s_status, 0, ...) and the three assignments of NET_STATUS_STOPPED
stop_status ==
  [ ZeroStatus EXCEPT !.sta_status = NET_STATUS_STOPPED,
                      !.ap_status  = NET_STATUS_STOPPED,
                      !.eth_status = NET_STATUS_STOPPED ]

\* a teardown that forgets to clear the retry counter
stop_retry_count_kept == s_sta_retry_count

\* s_sta_retry_count = 0 at the end of stop_all_interfaces()
stop_retry_count == 0

\* The whole of stop_all_interfaces(), as the values it leaves behind and the
\* driver calls it makes.
stop_all_interfaces ==
  [ netif_eth       |-> IF s_netif_eth # NULL THEN NULL ELSE s_netif_eth,
    eth_handles     |-> IF s_eth_handles # NULL THEN NULL ELSE s_eth_handles,
    eth_handles_num |-> IF s_eth_handles # NULL THEN 0 ELSE s_eth_handles_num,
    netif_sta       |-> IF wifi_active /\ s_netif_sta # NULL THEN NULL ELSE s_netif_sta,
    netif_ap        |-> IF wifi_active /\ s_netif_ap # NULL THEN NULL ELSE s_netif_ap,
    status          |-> stop_status,
    retry_count     |-> stop_retry_count,
    wifi_drv        |-> IF wifi_active THEN "deinit" ELSE wifi_drv,
    eth_drv         |-> IF s_netif_eth # NULL \/ s_eth_handles # NULL
                        THEN FALSE ELSE eth_drv,
    calls           |-> stop_calls ]

(* ---------------- public API: calls and the lock ---------------- *)

\* what neither the lock nor a return touches
lockFrame == << s_is_initialized, s_component_mutex, s_netif_sta, s_netif_ap,
                s_netif_eth, s_eth_handles, s_eth_handles_num, s_status,
                s_user_callback, s_sta_retry_count, max_retries, registered,
                wifi_drv, eth_drv, delays, up, env, nvs, kconfig, aborted >>

\* a query that reads s_status without taking the lock
QSkipLock(fn) ==
  CASE fn = "get_status"       -> "get_status_crit"
    [] fn = "is_sta_connected" -> "is_sta_connected_crit"
    [] fn = "is_eth_connected" -> "is_eth_connected_crit"

\* where a status query goes after its assert: LOCK()
QLockPc(fn) ==
  CASE fn = "get_status"       -> "get_status_lock"
    [] fn = "is_sta_connected" -> "is_sta_connected_lock"
    [] fn = "is_eth_connected" -> "is_eth_connected_lock"

QCritPcs == { "get_status_crit", "is_sta_connected_crit", "is_eth_connected_crit" }

\* the query function a task inside a query's critical section is running
QFnOf(p) ==
  CASE p = "get_status_crit"       -> "get_status"
    [] p = "is_sta_connected_crit" -> "is_sta_connected"
    [] p = "is_eth_connected_crit" -> "is_eth_connected"

LockPcs == { "init_lock", "deinit_lock", "start_lock", "stop_lock" }
              \cup { QLockPc(fn) : fn \in QueryFns }
CritOf(p) == CASE p = "init_lock"   -> "init_crit"
               [] p = "deinit_lock" -> "deinit_crit"
               [] p = "start_lock"  -> "start_crit"
               [] p = "stop_lock"   -> "stop_crit"
               [] p = "get_status_lock"       -> "get_status_crit"
               [] p = "is_sta_connected_lock" -> "is_sta_connected_crit"
               [] p = "is_eth_connected_lock" -> "is_eth_connected_crit"

\* LOCK(): xSemaphoreTake(s_component_mutex, portMAX_DELAY) by an API task
Lock(t) ==
  /\ Alive
  /\ pc[t] \in LockPcs
  /\ s_component_mutex # NULL
  /\ owner = NOBODY
  /\ owner' = t
  /\ pc' = [ pc EXCEPT ![t] = CritOf(pc[t]) ]
  /\ UNCHANGED << cur, emitted, calls, ret, phase, out, cfg >>
  /\ UNCHANGED lockFrame

\* UNLOCK() and the return of init, start, stop and the status queries
Unlock(t) ==
  /\ Alive
  /\ pc[t] \in { "init_done", "start_done", "stop_done", "query_done" }
  /\ owner' = Unlocked(t)
  /\ pc' = [ pc EXCEPT ![t] = "idle" ]
  /\ calls' = << >>
  /\ out' = IF pc[t] = "query_done" THEN NoOut ELSE out
  /\ cfg' = IF pc[t] = "start_done" THEN NoConfig ELSE cfg
  /\ phase' = IF pc[t] = "stop_done" THEN "stopped" ELSE phase
  /\ UNCHANGED << cur, emitted, ret >>
  /\ UNCHANGED lockFrame

\* an init that initialises again whatever s_is_initialized says
init_always_again == FALSE

\* if (s_is_initialized) at the top of net_manager_init
init_early_return == s_is_initialized

\* net_manager_init, up to LOCK(): the early-return test and the mutex creation
InitCall(t) ==
  /\ Alive
  /\ pc[t] = "idle"
  /\ IF init_early_return
     THEN /\ pc' = [ pc EXCEPT ![t] = "init_already" ]
          /\ ret' = [ ret EXCEPT ![t] = "none" ]
          /\ UNCHANGED s_component_mutex
     ELSE \E created \in BOOLEAN :
            IF created
            THEN /\ s_component_mutex' = MUTEX
                 /\ pc' = [ pc EXCEPT ![t] = "init_lock" ]
                 /\ ret' = [ ret EXCEPT ![t] = "none" ]
            ELSE /\ s_component_mutex' = NULL
                 /\ ret' = [ ret EXCEPT ![t] = "ESP_FAIL" ]
                 /\ UNCHANGED pc
  /\ UNCHANGED << s_is_initialized, owner, s_netif_sta, s_netif_ap,
                  s_netif_eth, s_eth_handles, s_eth_handles_num, s_status,
                  s_user_callback, s_sta_retry_count, max_retries, registered,
                  wifi_drv, eth_drv, cfg, cur, emitted, calls, delays,
                  up, env, out, nvs, kconfig, phase, aborted >>

\* net_manager_init: "Already initialized", return ESP_OK
InitAlready(t) ==
  /\ Alive
  /\ pc[t] = "init_already"
  /\ pc' = [ pc EXCEPT ![t] = "idle" ]
  /\ ret' = [ ret EXCEPT ![t] = "ESP_OK" ]
  /\ UNCHANGED << owner, cur, emitted, calls, phase, out, cfg, s_is_initialized,
                  s_component_mutex >>
  /\ UNCHANGED << s_netif_sta, s_netif_ap, s_netif_eth, s_eth_handles,
                  s_eth_handles_num, s_status, s_user_callback, s_sta_retry_count,
                  max_retries, registered, wifi_drv, eth_drv, delays, up, env,
                  nvs, kconfig, aborted >>

\* net_manager_init, from LOCK() to s_is_initialized = true
InitBody(t, cb) ==
  /\ Alive
  /\ pc[t] = "init_crit"
  /\ s_status' = ZeroStatus
  /\ s_user_callback' = cb
  /\ registered' = TRUE
  /\ s_is_initialized' = TRUE
  /\ pc' = [ pc EXCEPT ![t] = "init_done" ]
  /\ ret' = [ ret EXCEPT ![t] = "ESP_OK" ]
  /\ UNCHANGED << s_component_mutex, owner, s_netif_sta, s_netif_ap,
                  s_netif_eth, s_eth_handles, s_eth_handles_num,
                  s_sta_retry_count, max_retries,
                  wifi_drv, eth_drv, cfg, cur, emitted, calls, delays,
                  up, env, out, nvs, kconfig, phase, aborted >>

\* net_manager_deinit, up to LOCK()
DeinitCall(t) ==
  /\ Alive
  /\ pc[t] = "idle"
  /\ IF ~s_is_initialized
     THEN /\ ret' = [ ret EXCEPT ![t] = "ESP_OK" ]
          /\ UNCHANGED pc
     ELSE /\ pc' = [ pc EXCEPT ![t] = "deinit_lock" ]
          /\ ret' = [ ret EXCEPT ![t] = "none" ]
  /\ UNCHANGED << s_is_initialized, s_component_mutex, owner, s_netif_sta,
                  s_netif_ap, s_netif_eth, s_eth_handles, s_eth_handles_num,
                  s_status, s_user_callback, s_sta_retry_count, max_retries,
                  registered, wifi_drv, eth_drv, cfg, cur, emitted, calls,
                  delays, up, env, out, nvs, kconfig, phase, aborted >>

\* the assignments stop_all_interfaces() makes, for its callers
StopAllEffect ==
  LET r == stop_all_interfaces IN
    /\ s_netif_sta' = r.netif_sta
    /\ s_netif_ap' = r.netif_ap
    /\ s_netif_eth' = r.netif_eth
    /\ s_eth_handles' = r.eth_handles
    /\ s_eth_handles_num' = r.eth_handles_num
    /\ s_status' = r.status
    /\ s_sta_retry_count' = r.retry_count
    /\ wifi_drv' = r.wifi_drv
    /\ eth_drv' = r.eth_drv
    /\ calls' = r.calls
    /\ delays' = << >>

\* a deinit that leaves event_handler subscribed
deinit_registered_kept == registered

\* the three esp_event_handler_instance_unregister calls of net_manager_deinit
deinit_registered == FALSE

\* net_manager_deinit, from LOCK() to s_is_initialized = false
DeinitBody(t) ==
  /\ Alive
  /\ pc[t] = "deinit_crit"
  /\ StopAllEffect
  /\ registered' = deinit_registered
  /\ s_is_initialized' = FALSE
  /\ phase' = "boot"
  /\ pc' = [ pc EXCEPT ![t] = "deinit_done" ]
  /\ UNCHANGED << s_component_mutex, owner, s_user_callback, max_retries, cur,
                  emitted, cfg, up, env, out, nvs, kconfig, ret, aborted >>

\* net_manager_deinit: UNLOCK()
DeinitUnlock(t) ==
  /\ Alive
  /\ pc[t] = "deinit_done"
  /\ owner' = Unlocked(t)
  /\ pc' = [ pc EXCEPT ![t] = "deinit_delete" ]
  /\ calls' = << >>
  /\ UNCHANGED << cur, emitted, ret, phase, out, cfg >>
  /\ UNCHANGED lockFrame

\* net_manager_deinit: vSemaphoreDelete(s_component_mutex) and the return
DeinitDelete(t) ==
  /\ Alive
  /\ pc[t] = "deinit_delete"
  /\ s_component_mutex' = NULL
  /\ pc' = [ pc EXCEPT ![t] = "idle" ]
  /\ ret' = [ ret EXCEPT ![t] = "ESP_OK" ]
  /\ UNCHANGED << s_is_initialized, owner, s_netif_sta,
                  s_netif_ap, s_netif_eth, s_eth_handles, s_eth_handles_num,
                  s_status, s_user_callback, s_sta_retry_count, max_retries,
                  registered, wifi_drv, eth_drv, cfg, cur, emitted, calls,
                  delays, up, env, out, nvs, kconfig, phase, aborted >>

\* net_manager_stop / net_manager_start, up to LOCK(): assert(s_is_initialized)
ApiCall(t, lockpc) ==
  /\ Alive
  /\ pc[t] = "idle"
  /\ IF assert_initialized
     THEN /\ pc' = [ pc EXCEPT ![t] = lockpc ]
          /\ ret' = [ ret EXCEPT ![t] = "none" ]
          /\ UNCHANGED aborted
     ELSE /\ aborted' = TRUE
          /\ UNCHANGED << pc, ret >>
  /\ UNCHANGED << s_is_initialized, s_component_mutex, owner, s_netif_sta,
                  s_netif_ap, s_netif_eth, s_eth_handles, s_eth_handles_num,
                  s_status, s_user_callback, s_sta_retry_count, max_retries,
                  registered, wifi_drv, eth_drv, cfg, cur, emitted, calls,
                  delays, up, env, out, nvs, kconfig, phase >>

StopCall(t)  == ApiCall(t, "stop_lock")
StartCall(t) == ApiCall(t, "start_lock")

\* net_manager_stop, between LOCK() and UNLOCK()
StopBody(t) ==
  /\ Alive
  /\ pc[t] = "stop_crit"
  /\ StopAllEffect
  /\ pc' = [ pc EXCEPT ![t] = "stop_done" ]
  /\ ret' = [ ret EXCEPT ![t] = "ESP_OK" ]
  /\ UNCHANGED << s_is_initialized, s_component_mutex, owner, s_user_callback,
                  max_retries, registered, cur, emitted, cfg,
                  up, env, out, nvs, kconfig, phase, aborted >>

(* ---------------- status queries ---------------- *)

\* net_manager_get_status / is_sta_connected / is_eth_connected, up to LOCK()
QueryCall(t, fn) == ApiCall(t, QLockPc(fn))

\* what the query computes between LOCK() and UNLOCK()
query_result(fn) ==
  [ fn |-> fn,
    status |-> IF fn = "get_status" THEN s_status ELSE ZeroStatus,
    netif |-> NULL,
    connected |->
      CASE fn = "is_sta_connected" -> (s_status.sta_status = NET_STATUS_CONNECTED)
        [] fn = "is_eth_connected" -> (s_status.eth_status = NET_STATUS_CONNECTED)
        [] OTHER -> FALSE ]

\* the memcpy / comparison of a status query, between LOCK() and UNLOCK()
QueryBody(t) ==
  /\ Alive
  /\ pc[t] \in QCritPcs
  /\ out' = query_result(QFnOf(pc[t]))
  /\ ret' = [ ret EXCEPT ![t] = IF QFnOf(pc[t]) = "get_status" THEN "ESP_OK" ELSE @ ]
  /\ pc' = [ pc EXCEPT ![t] = "query_done" ]
  /\ UNCHANGED << owner, cur, emitted, calls, phase, cfg >>
  /\ UNCHANGED lockFrame

(* ---------------- handle queries ---------------- *)

\* what no handle query touches
handleFrame == << s_is_initialized, s_component_mutex, owner, s_netif_sta, s_netif_ap,
                  s_netif_eth, s_eth_handles, s_eth_handles_num, s_status,
                  s_user_callback, s_sta_retry_count, max_retries, registered,
                  wifi_drv, eth_drv, cfg, cur, emitted, calls, delays, up, env,
                  nvs, kconfig, phase >>

\* a selection that also serves the access point
ip_query_handle_with_ap(source) ==
  IF source = NET_EVENT_SOURCE_STA THEN s_netif_sta
  ELSE IF source = NET_EVENT_SOURCE_ETHERNET THEN s_netif_eth
  ELSE s_netif_ap

\* esp_netif_t *netif of net_manager_get_ip_info / net_manager_get_dns_info
ip_query_handle(source) ==
  IF source = NET_EVENT_SOURCE_STA THEN s_netif_sta
  ELSE IF source = NET_EVENT_SOURCE_ETHERNET THEN s_netif_eth
  ELSE NULL

\* a client list query that goes to the driver whatever s_netif_ap holds
ap_clients_handle_unchecked == NETIF_AP

\* if (!s_netif_ap) of net_manager_get_ap_clients_list
ap_clients_handle == s_netif_ap

\* the handle a query tests before it delegates
handle_of(fn, source) ==
  IF fn = "get_ap_clients_list" THEN ap_clients_handle ELSE ip_query_handle(source)

\* what a query returns when that handle is NULL
no_handle_error(fn) ==
  IF fn = "get_ap_clients_list" THEN "ESP_ERR_WIFI_NOT_STARTED" ELSE "ESP_ERR_INVALID_ARG"

\* the handle netif still is the live handle of its interface
live(netif) ==
  /\ netif # NULL
  /\ netif \in { s_netif_sta, s_netif_ap, s_netif_eth }

\* What the delegated call can answer.  esp_netif_get_ip_info and
\* esp_netif_get_dns_info on a live handle succeed; on a handle
\* esp_netif_destroy has freed they read freed memory, and anything can
\* follow.  esp_wifi_ap_get_sta_list answers for the radio as it is.
delegate_outcomes(fn, netif) ==
  IF fn = "get_ap_clients_list"
  THEN IF wifi_drv = "started" THEN { "ESP_OK" } ELSE { "ESP_ERR_WIFI_NOT_INIT" }
  ELSE IF live(netif) THEN { "ESP_OK" }
  ELSE { "ESP_OK", "ESP_FAIL", "crash" }

\* net_manager_get_ip_info / get_dns_info / get_ap_clients_list up to the
\* test of the handle: the assert, the selection, and the early return
HandleCall(t, fn, source) ==
  /\ Alive
  /\ pc[t] = "idle"
  /\ out = NoOut
  /\ IF ~assert_initialized
     THEN /\ aborted' = TRUE
          /\ UNCHANGED << pc, ret, out >>
     ELSE /\ UNCHANGED aborted
          /\ IF handle_of(fn, source) = NULL
             THEN /\ ret' = [ ret EXCEPT ![t] = no_handle_error(fn) ]
                  /\ UNCHANGED << pc, out >>
             ELSE /\ ret' = [ ret EXCEPT ![t] = "none" ]
                  /\ pc' = [ pc EXCEPT ![t] = "handle_use" ]
                  /\ out' = [ NoOut EXCEPT !.fn = fn, !.netif = handle_of(fn, source) ]
  /\ UNCHANGED handleFrame

\* return esp_netif_get_ip_info(netif, ...) / esp_netif_get_dns_info(netif,
\* ...) / esp_wifi_ap_get_sta_list(clients)
HandleUse(t, outcome) ==
  /\ Alive
  /\ pc[t] = "handle_use"
  /\ outcome \in delegate_outcomes(out.fn, out.netif)
  /\ IF outcome = "crash"
     THEN /\ aborted' = TRUE
          /\ UNCHANGED << pc, ret, out >>
     ELSE /\ ret' = [ ret EXCEPT ![t] = outcome ]
          /\ pc' = [ pc EXCEPT ![t] = "idle" ]
          /\ out' = NoOut
          /\ UNCHANGED aborted
  /\ UNCHANGED handleFrame

(* ---------------- net_manager_start ---------------- *)

\* start_sta(): creates the STA attachment handle and configures the station
start_sta == [ netif_sta |-> NETIF_STA,
               calls |-> << "esp_netif_create_default_wifi_sta",
                            "esp_wifi_set_config(sta)" >> ]

\* start_ap(): creates the AP attachment handle and configures the access point
start_ap == [ netif_ap |-> NETIF_AP,
              calls |-> << "esp_netif_create_default_wifi_ap",
                           "esp_wifi_set_config(ap)" >> ]

\* start_eth(): ndev is the number of devices ethernet_init_all() reports and
\* hnd the array it hands back; prev is the state stop_all_interfaces left
start_eth(prev, ndev, hnd) ==
  IF ndev = 0
  THEN [ result |-> "ESP_FAIL", netif_eth |-> prev.netif_eth,
         eth_handles |-> hnd, eth_handles_num |-> 0, eth_drv |-> prev.eth_drv,
         calls |-> << "ethernet_init_all" >> ]
  ELSE [ result |-> "ESP_OK", netif_eth |-> NETIF_ETH,
         eth_handles |-> hnd, eth_handles_num |-> ndev, eth_drv |-> TRUE,
         calls |-> << "ethernet_init_all", "esp_netif_new(eth)",
                      "esp_netif_attach(eth)", "esp_eth_start" >> ]

\* a start that always asks for the combined mode
wifi_mode_always_apsta(c) == "WIFI_MODE_APSTA"

\* wifi_mode_t chosen by net_manager_start
wifi_mode(c) ==
  IF c.wifi_sta_enabled /\ c.wifi_ap_enabled THEN "WIFI_MODE_APSTA"
  ELSE IF c.wifi_sta_enabled THEN "WIFI_MODE_STA"
  ELSE IF c.wifi_ap_enabled THEN "WIFI_MODE_AP"
  ELSE "WIFI_MODE_NULL"

\* ESP_ERROR_CHECK(esp_wifi_set_mode(mode))
set_mode_call(mode) ==
  CASE mode = "WIFI_MODE_APSTA" -> "esp_wifi_set_mode(WIFI_MODE_APSTA)"
    [] mode = "WIFI_MODE_STA"   -> "esp_wifi_set_mode(WIFI_MODE_STA)"
    [] mode = "WIFI_MODE_AP"    -> "esp_wifi_set_mode(WIFI_MODE_AP)"

\* a start that skips the teardown of the previous run
start_dirty_state ==
  [ netif_eth |-> s_netif_eth, eth_handles |-> s_eth_handles,
    eth_handles_num |-> s_eth_handles_num, netif_sta |-> s_netif_sta,
    netif_ap |-> s_netif_ap, status |-> s_status,
    retry_count |-> s_sta_retry_count, wifi_drv |-> wifi_drv,
    eth_drv |-> eth_drv, calls |-> << >> ]

\* stop_all_interfaces() at the top of net_manager_start: "ensure a clean
\* state before starting"
start_clean_state == stop_all_interfaces

\* The body of net_manager_start() between LOCK() and UNLOCK(), for the
\* effective configuration c.
net_manager_start(c, ndev, hnd) ==
  LET r == start_clean_state
      is_wifi_needed == c.wifi_sta_enabled \/ c.wifi_ap_enabled
      e == start_eth(r, ndev, hnd)
      c_init  == IF is_wifi_needed
                 THEN << "esp_wifi_init" >> \o
                      (IF wifi_mode(c) # "WIFI_MODE_NULL"
                       THEN << set_mode_call(wifi_mode(c)) >> ELSE << >>)
                 ELSE << >>
      c_sta   == IF c.wifi_sta_enabled THEN start_sta.calls ELSE << >>
      c_ap    == IF c.wifi_ap_enabled THEN start_ap.calls ELSE << >>
      c_eth   == IF c.ethernet_enabled THEN e.calls ELSE << >>
      c_start == IF is_wifi_needed THEN << "esp_wifi_start" >> ELSE << >>
  IN [ netif_sta |-> IF c.wifi_sta_enabled THEN start_sta.netif_sta ELSE r.netif_sta,
       netif_ap  |-> IF c.wifi_ap_enabled THEN start_ap.netif_ap ELSE r.netif_ap,
       netif_eth |-> IF c.ethernet_enabled THEN e.netif_eth ELSE r.netif_eth,
       eth_handles |-> IF c.ethernet_enabled THEN e.eth_handles ELSE r.eth_handles,
       eth_handles_num |-> IF c.ethernet_enabled THEN e.eth_handles_num
                           ELSE r.eth_handles_num,
       status      |-> r.status,
       retry_count |-> r.retry_count,
       wifi_drv    |-> IF is_wifi_needed THEN "started" ELSE r.wifi_drv,
       eth_drv     |-> IF c.ethernet_enabled THEN e.eth_drv ELSE r.eth_drv,
       calls       |-> r.calls \o c_init \o c_sta \o c_ap \o c_eth \o c_start,
       result      |-> "ESP_OK" ]

\* net_manager_start, between LOCK() and UNLOCK(), working with the
\* configuration c: the caller's, memcpy'd into the local cfg.
StartBody(t, c, ndev, hnd) ==
  /\ Alive
  /\ pc[t] = "start_crit"
  /\ hnd = NULL => ndev = 0
  /\ LET n == net_manager_start(c, ndev, hnd)
     IN /\ cfg' = c
        /\ s_netif_sta' = n.netif_sta
        /\ s_netif_ap' = n.netif_ap
        /\ s_netif_eth' = n.netif_eth
        /\ s_eth_handles' = n.eth_handles
        /\ s_eth_handles_num' = n.eth_handles_num
        /\ s_status' = n.status
        /\ s_sta_retry_count' = n.retry_count
        /\ wifi_drv' = n.wifi_drv
        /\ eth_drv' = n.eth_drv
        /\ calls' = n.calls
        /\ ret' = [ ret EXCEPT ![t] = n.result ]
        /\ up' = { i \in env :
                      \/ i = "sta" /\ c.wifi_sta_enabled
                      \/ i = "ap" /\ c.wifi_ap_enabled
                      \/ i = "eth" /\ c.ethernet_enabled /\ n.eth_drv }
  /\ delays' = << >>
  /\ phase' = "running"
  /\ pc' = [ pc EXCEPT ![t] = "start_done" ]
  /\ UNCHANGED << s_is_initialized, s_component_mutex, owner, s_user_callback,
                  max_retries, registered, cur, emitted, env, out, nvs, kconfig, aborted >>


(* ---------------- configuration store ---------------- *)

\* what no call on the configuration store touches
storeFrame == << s_is_initialized, s_component_mutex, owner, s_netif_sta, s_netif_ap,
                 s_netif_eth, s_eth_handles, s_eth_handles_num, s_status,
                 s_user_callback, s_sta_retry_count, max_retries, registered,
                 wifi_drv, eth_drv, cur, emitted, calls, delays, up, env,
                 out, kconfig, phase >>

\* nvs_get_blob(handle, NVS_CONFIG_KEY, buf, &length) with length = len on
\* entry: no entry leaves buf alone; an entry longer than len is refused and
\* leaves buf alone; any other entry is copied over the start of buf, and
\* length becomes the size of the entry
nvs_get_blob(buf, len) ==
  IF ~nvs.found
  THEN [ err |-> "ESP_ERR_NVS_NOT_FOUND", buf |-> buf, length |-> len ]
  ELSE IF Len(nvs.blob) > len
  THEN [ err |-> "ESP_ERR_NVS_INVALID_LENGTH", buf |-> buf, length |-> Len(nvs.blob) ]
  ELSE [ err |-> "ESP_OK",
         buf |-> [ i \in 1 .. Len(buf) |->
                     IF i <= Len(nvs.blob) THEN nvs.blob[i] ELSE buf[i] ],
         length |-> Len(nvs.blob) ]

\* net_manager_load_config_from_nvs(config) after its assert: the result and
\* what *config holds afterwards, c being what it held before
load_config(c) ==
  IF nvs.open # "ESP_OK"
  THEN [ ret |-> nvs.open, config |-> c ]
  ELSE LET g == nvs_get_blob(Image(c), CfgSize)
       IN IF g.err = "ESP_OK" /\ g.length # CfgSize
          THEN [ ret |-> "ESP_FAIL", config |-> ConfigOf(g.buf) ]
          ELSE [ ret |-> g.err, config |-> ConfigOf(g.buf) ]

\* defaults written over whatever the object held
default_base_kept(c) == c

\* memset(config, 0, sizeof(net_manager_config_t))
default_base(c) == NoConfig

\* get_default_config_from_kconfig(config): the memset, then every member
\* whose CONFIG_NET_MANAGER_*_ENABLED_DEFAULT is defined is set
get_default_config_from_kconfig(c) ==
  LET b == default_base(c)
  IN [ wifi_sta_enabled |-> IF kconfig.wifi_sta_enabled THEN TRUE ELSE b.wifi_sta_enabled,
       wifi_ap_enabled  |-> IF kconfig.wifi_ap_enabled THEN TRUE ELSE b.wifi_ap_enabled,
       ethernet_enabled |-> IF kconfig.ethernet_enabled THEN TRUE ELSE b.ethernet_enabled ]

\* the cfg net_manager_start(NULL) works with; garbage is what its
\* uninitialised local held
start_config_absent(garbage) ==
  LET l == load_config(garbage)
  IN IF l.ret # "ESP_OK" THEN get_default_config_from_kconfig(l.config)
     ELSE l.config

\* net_manager_start(NULL), between LOCK() and UNLOCK()
StartAbsentBody(t, garbage, ndev, hnd) ==
  StartBody(t, start_config_absent(garbage), ndev, hnd)

\* net_manager_load_config_from_nvs, its assert; c is what the caller's
\* object holds
LoadCall(t, c) ==
  /\ Alive
  /\ pc[t] = "idle"
  /\ IF assert_initialized
     THEN /\ pc' = [ pc EXCEPT ![t] = "load_run" ]
          /\ ret' = [ ret EXCEPT ![t] = "none" ]
          /\ cfg' = c
          /\ UNCHANGED aborted
     ELSE /\ aborted' = TRUE
          /\ UNCHANGED << pc, ret, cfg >>
  /\ UNCHANGED nvs
  /\ UNCHANGED storeFrame

\* net_manager_load_config_from_nvs, from nvs_open to its return statement
LoadBody(t) ==
  /\ Alive
  /\ pc[t] = "load_run"
  /\ cfg' = load_config(cfg).config
  /\ ret' = [ ret EXCEPT ![t] = load_config(cfg).ret ]
  /\ pc' = [ pc EXCEPT ![t] = "load_done" ]
  /\ UNCHANGED << nvs, aborted >>
  /\ UNCHANGED storeFrame

\* the caller is done with the loaded object
LoadReturn(t) ==
  /\ Alive
  /\ pc[t] = "load_done"
  /\ cfg' = NoConfig
  /\ pc' = [ pc EXCEPT ![t] = "idle" ]
  /\ UNCHANGED << nvs, ret, aborted >>
  /\ UNCHANGED storeFrame

\* a save that hands nvs_set_blob one field less than the object has
save_blob_short(c) == SubSeq(Image(c), 1, CfgSize - 1)

\* nvs_set_blob(nvs_handle, NVS_CONFIG_KEY, config, sizeof(net_manager_config_t))
save_blob(c) == Image(c)

\* net_manager_save_config_to_nvs(&c), its assert
SaveCall(t, c) ==
  /\ Alive
  /\ pc[t] = "idle"
  /\ IF assert_initialized
     THEN /\ pc' = [ pc EXCEPT ![t] = "save_run" ]
          /\ ret' = [ ret EXCEPT ![t] = "none" ]
          /\ cfg' = c
          /\ UNCHANGED aborted
     ELSE /\ aborted' = TRUE
          /\ UNCHANGED << pc, ret, cfg >>
  /\ UNCHANGED nvs
  /\ UNCHANGED storeFrame

\* net_manager_save_config_to_nvs, from nvs_open to its return statement;
\* written tells whether nvs_set_blob and nvs_commit succeed
SaveBody(t, written) ==
  /\ Alive
  /\ pc[t] = "save_run"
  /\ IF nvs.open # "ESP_OK"
     THEN /\ ret' = [ ret EXCEPT ![t] = nvs.open ]
          /\ UNCHANGED nvs
     ELSE IF written
     THEN /\ nvs' = [ nvs EXCEPT !.found = TRUE, !.blob = save_blob(cfg) ]
          /\ ret' = [ ret EXCEPT ![t] = "ESP_OK" ]
     ELSE /\ ret' = [ ret EXCEPT ![t] = "ESP_ERR_NVS_NOT_ENOUGH_SPACE" ]
          /\ UNCHANGED nvs
  /\ pc' = [ pc EXCEPT ![t] = "save_done" ]
  /\ UNCHANGED << cfg, aborted >>
  /\ UNCHANGED storeFrame

\* the caller is done with the saved object
SaveReturn(t) ==
  /\ Alive
  /\ pc[t] = "save_done"
  /\ cfg' = NoConfig
  /\ pc' = [ pc EXCEPT ![t] = "idle" ]
  /\ UNCHANGED << nvs, ret, aborted >>
  /\ UNCHANGED storeFrame

(* ---------------- raw events ---------------- *)

WifiIds == { "WIFI_EVENT_STA_START", "WIFI_EVENT_STA_DISCONNECTED",
             "WIFI_EVENT_AP_START", "WIFI_EVENT_AP_STOP",
             "WIFI_EVENT_AP_STACONNECTED", "WIFI_EVENT_AP_STADISCONNECTED",
             "WIFI_EVENT_OTHER" }
EthIds  == { "ETHERNET_EVENT_CONNECTED", "ETHERNET_EVENT_DISCONNECTED",
             "ETHERNET_EVENT_START", "ETHERNET_EVENT_STOP",
             "ETHERNET_EVENT_OTHER" }

\* IP_EVENT ids: an address was acquired (IP_EVENT_STA_GOT_IP,
\* IP_EVENT_ETH_GOT_IP), or the address was lost (IP_EVENT_STA_LOST_IP,
\* IP_EVENT_ETH_LOST_IP), whose data names the netif and holds no address
IpIds == { "IP_EVENT_GOT_IP", "IP_EVENT_LOST_IP" }

RawEvent(base, id, netif, ip) == [ base |-> base, id |-> id, netif |-> netif, ip |-> ip ]

Events ==
  { RawEvent("WIFI_EVENT", i, NULL, 0) : i \in WifiIds } \cup
  { RawEvent("ETH_EVENT", i, NULL, 0) : i \in EthIds } \cup
  { RawEvent("IP_EVENT", "IP_EVENT_GOT_IP", n, a) :
        n \in { NETIF_STA, NETIF_ETH, NETIF_OTHER }, a \in 1 .. MaxIp } \cup
  { RawEvent("IP_EVENT", "IP_EVENT_LOST_IP", n, 0) : n \in { NETIF_STA, NETIF_ETH } } \cup
  { RawEvent("OTHER_EVENT", "ANY", NULL, 0) }

\* the interface a raw event belongs to
InterfaceOf(e) ==
  CASE e.base = "WIFI_EVENT" ->
         IF e.id \in { "WIFI_EVENT_STA_START", "WIFI_EVENT_STA_DISCONNECTED",
                       "WIFI_EVENT_OTHER" }
         THEN "sta" ELSE "ap"
    [] e.base = "ETH_EVENT" -> "eth"
    [] e.base = "IP_EVENT" ->
         CASE e.netif = NETIF_STA -> "sta"
           [] e.netif = NETIF_ETH -> "eth"
           [] OTHER -> "ap"
    [] OTHER -> "none"

\* What the drivers can have in flight: events of an interface the latest
\* start brought up; a stop does not flush the event loop, so they keep
\* arriving after it.  An event of no interface can come at any time.  The IP
\* stack reports the loss of an address only after it has handed one out.
\* The counters are kept inside the explored range.
Deliverable(e) ==
  /\ InterfaceOf(e) # "none" => InterfaceOf(e) \in up \cap env
  /\ e.id = "WIFI_EVENT_STA_DISCONNECTED" =>
        (max_retries >= 0 \/ s_sta_retry_count < MaxRetry)
  /\ e.id = "IP_EVENT_LOST_IP" =>
        \/ e.netif = NETIF_STA /\ s_status.sta_ip_info # 0
        \/ e.netif = NETIF_ETH /\ s_status.eth_ip_info # 0
  /\ e.id = "WIFI_EVENT_AP_STACONNECTED" =>
        (s_status.ap_connected_clients < MaxClients
           \/ s_status.ap_connected_clients = U8 - 1)
  /\ e.id = "WIFI_EVENT_AP_STADISCONNECTED" =>
        s_status.ap_connected_clients <= MaxClients

(* ---------------- event_handler ---------------- *)

\* what event_handler never writes
handlerFrame == << s_is_initialized, s_component_mutex, s_netif_sta, s_netif_ap,
                   s_netif_eth, s_eth_handles, s_eth_handles_num,
                   s_user_callback, max_retries, registered, wifi_drv, eth_drv,
                   cfg, up, env, out, nvs, kconfig, phase, ret, aborted >>

\* the event loop hands a raw event to event_handler
Deliver(e) ==
  /\ Alive
  /\ registered
  /\ pc[EVT] = "idle"
  /\ Deliverable(e)
  /\ cur' = e
  /\ pc' = [ pc EXCEPT ![EVT] = "h_lock" ]
  /\ UNCHANGED << owner, s_status, s_sta_retry_count, emitted, calls, delays >>
  /\ UNCHANGED handlerFrame

\* the station's driver reports one more failed connection attempt of a
\* streak; the streak is kept inside the range explored for the arithmetic
DeliverStreak ==
  /\ Alive
  /\ registered
  /\ pc[EVT] = "idle"
  /\ "sta" \in up \cap env
  /\ s_sta_retry_count < MaxStreak
  /\ cur' = [ base |-> "WIFI_EVENT", id |-> "WIFI_EVENT_STA_DISCONNECTED",
              netif |-> NULL, ip |-> 0 ]
  /\ pc' = [ pc EXCEPT ![EVT] = "h_lock" ]
  /\ UNCHANGED << owner, s_status, s_sta_retry_count, emitted, calls, delays >>
  /\ UNCHANGED handlerFrame

\* LOCK() at the top of event_handler
HLock ==
  /\ Alive
  /\ pc[EVT] = "h_lock"
  /\ s_component_mutex # NULL
  /\ owner = NOBODY
  /\ owner' = EVT
  /\ pc' = [ pc EXCEPT ![EVT] = "h_crit" ]
  /\ UNCHANGED << cur, emitted, calls, s_status, s_sta_retry_count, delays >>
  /\ UNCHANGED handlerFrame

InHandler(base, id) ==
  /\ Alive
  /\ pc[EVT] = "h_crit"
  /\ cur.base = base
  /\ cur.id = id

\* the handler has made its last dispatch and is about to UNLOCK()
HReturn ==
  /\ pc' = [ pc EXCEPT ![EVT] = "h_done" ]
  /\ UNCHANGED << owner, cur >>

\* UNLOCK() and return of event_handler
HUnlock ==
  /\ Alive
  /\ pc[EVT] = "h_done"
  /\ owner' = Unlocked(EVT)
  /\ pc' = [ pc EXCEPT ![EVT] = "idle" ]
  /\ cur' = NoEvent
  /\ emitted' = << >>
  /\ calls' = << >>
  /\ UNCHANGED << s_status, s_sta_retry_count, delays >>
  /\ UNCHANGED handlerFrame

\* a retry decision that lets one attempt too many through
should_retry_inclusive == max_retries < 0 \/ s_sta_retry_count <= max_retries

\* the retry decision of the WIFI_EVENT_STA_DISCONNECTED case
should_retry == max_retries < 0 \/ s_sta_retry_count < max_retries

\* a backoff that grows by one base unit per attempt instead of doubling
backoff_linear(n) == BASE_DELAY_MS * (n + 1)

\* 1000 << n, the argument of pdMS_TO_TICKS
backoff_ms(n) == Shl32(BASE_DELAY_MS, n)

\* The values 1000 << n can take in the build.  A count of 0 .. 31 is shifted
\* by the shift instruction, bits leaving the 32-bit int; a count outside the
\* width of int is undefined in C: the targets' shift instructions use the low
\* five bits of the count, a shift that honours the whole count leaves 0.
backoff_outcomes(n) == IF n \in 0 .. (INT_BITS - 1)
                       THEN { backoff_ms(n) }
                       ELSE { backoff_ms(n % INT_BITS), 0 }

\* a delay computed before s_sta_retry_count++ instead of after it
backoff_exponent_before == s_sta_retry_count

\* the value s_sta_retry_count has when the backoff delay is computed
backoff_exponent == Inc32(s_sta_retry_count)

\* a station that reports Started before it connects
sta_start_status_started == NET_STATUS_STARTED

\* s_status.sta_status = NET_STATUS_CONNECTING of the WIFI_EVENT_STA_START case
sta_start_status == NET_STATUS_CONNECTING

H_STA_START ==
  /\ InHandler("WIFI_EVENT", "WIFI_EVENT_STA_START")
  /\ s_status' = [ s_status EXCEPT !.sta_status = sta_start_status ]
  /\ calls' = Append(calls, "esp_wifi_connect")
  /\ emitted' = Dispatch(emitted, Ev(NET_EVENT_SOURCE_STA, sta_start_status, NULL))
  /\ HReturn
  /\ UNCHANGED << s_sta_retry_count, delays >>
  /\ UNCHANGED handlerFrame

\* a disconnect case that leaves the notification to the final dispatch
notify_at_end(em, ev) == em

\* if (s_user_callback) s_user_callback(&event_to_dispatch); "Notify
\* disconnect immediately", ahead of the retry decision
notify_immediately(em, ev) == Dispatch(em, ev)

\* WIFI_EVENT_STA_DISCONNECTED up to the end of the backoff decision: either
\* the handler enters vTaskDelay holding the lock, or it falls through to the
\* final dispatch and returns
H_STA_DISCONNECTED ==
  /\ InHandler("WIFI_EVENT", "WIFI_EVENT_STA_DISCONNECTED")
  /\ s_status' = [ s_status EXCEPT !.sta_status = NET_STATUS_DISCONNECTED ]
  /\ LET event_to_dispatch == Ev(NET_EVENT_SOURCE_STA, NET_STATUS_DISCONNECTED, NULL)
         notified == notify_immediately(emitted, event_to_dispatch)
     IN IF should_retry
        THEN /\ s_sta_retry_count' = Inc32(s_sta_retry_count)
             /\ \E ms \in backoff_outcomes(backoff_exponent) :
                   delays' = Append(delays, ms)
             /\ emitted' = notified
             /\ pc' = [ pc EXCEPT ![EVT] = "h_backoff" ]
             /\ UNCHANGED << owner, cur >>
        ELSE /\ emitted' = Dispatch(notified, event_to_dispatch)
             /\ HReturn
             /\ UNCHANGED << s_sta_retry_count, delays >>
  /\ UNCHANGED calls
  /\ UNCHANGED handlerFrame

\* a retry that records the station as waiting while it announces Connecting
retry_status_waiting == NET_STATUS_WAITING_FOR_RECONNECT

\* s_status.sta_status = NET_STATUS_CONNECTING after the esp_wifi_connect()
\* of the retry
retry_status == NET_STATUS_CONNECTING

\* the rest of the retry branch once vTaskDelay returns
H_BackoffDone ==
  /\ Alive
  /\ pc[EVT] = "h_backoff"
  /\ calls' = Append(calls, "esp_wifi_connect")
  /\ s_status' = [ s_status EXCEPT !.sta_status = retry_status ]
  /\ emitted' = Dispatch(emitted, Ev(NET_EVENT_SOURCE_STA, NET_STATUS_CONNECTING, NULL))
  /\ HReturn
  /\ UNCHANGED << s_sta_retry_count, delays >>
  /\ UNCHANGED handlerFrame

\* esp_netif_get_ip_info(s_netif_ap, &s_status.ap_ip_info): addr is the
\* address the IP stack holds for the AP; a NULL netif leaves the output alone
H_AP_START(addr) ==
  /\ InHandler("WIFI_EVENT", "WIFI_EVENT_AP_START")
  /\ LET info == IF s_netif_ap # NULL THEN addr ELSE s_status.ap_ip_info
     IN /\ s_status' = [ s_status EXCEPT !.ap_status = NET_STATUS_STARTED,
                                         !.ap_ip_info = info ]
        /\ emitted' = Dispatch(emitted, Ev(NET_EVENT_SOURCE_AP, NET_STATUS_STARTED, info))
  /\ HReturn
  /\ UNCHANGED << s_sta_retry_count, delays, calls >>
  /\ UNCHANGED handlerFrame

H_AP_STOP ==
  /\ InHandler("WIFI_EVENT", "WIFI_EVENT_AP_STOP")
  /\ s_status' = [ s_status EXCEPT !.ap_status = NET_STATUS_STOPPED ]
  /\ emitted' = Dispatch(emitted, Ev(NET_EVENT_SOURCE_AP, NET_STATUS_STOPPED, NULL))
  /\ HReturn
  /\ UNCHANGED << s_sta_retry_count, delays, calls >>
  /\ UNCHANGED handlerFrame

\* s_status.ap_connected_clients++ on a uint8_t
clients_inc(n) == (n + 1) % U8

\* s_status.ap_connected_clients-- on a uint8_t
clients_dec(n) == (n - 1) % U8

H_AP_STACONNECTED ==
  /\ InHandler("WIFI_EVENT", "WIFI_EVENT_AP_STACONNECTED")
  /\ s_status' = [ s_status EXCEPT !.ap_connected_clients =
                                      clients_inc(s_status.ap_connected_clients) ]
  /\ emitted' = Dispatch(emitted, Ev(NET_EVENT_SOURCE_AP, NET_STATUS_CLIENT_CONNECTED, "client"))
  /\ HReturn
  /\ UNCHANGED << s_sta_retry_count, delays, calls >>
  /\ UNCHANGED handlerFrame

H_AP_STADISCONNECTED ==
  /\ InHandler("WIFI_EVENT", "WIFI_EVENT_AP_STADISCONNECTED")
  /\ s_status' = [ s_status EXCEPT !.ap_connected_clients =
                                      clients_dec(s_status.ap_connected_clients) ]
  /\ emitted' = Dispatch(emitted, Ev(NET_EVENT_SOURCE_AP, NET_STATUS_CLIENT_DISCONNECTED, "client"))
  /\ HReturn
  /\ UNCHANGED << s_sta_retry_count, delays, calls >>
  /\ UNCHANGED handlerFrame

\* a default branch that leaves the switch instead of returning, and so
\* reaches the final dispatch with the zero-initialised event_to_dispatch
unhandled_falls_through == Dispatch(emitted, Ev(0, 0, NULL))

\* UNLOCK(); return; of the default branches: nothing is dispatched
unhandled_emission == emitted

\* an address acquisition that leaves the retry counter where it was
got_ip_retry_count_kept == s_sta_retry_count

\* s_sta_retry_count = 0 of the STA branch of IP_EVENT
got_ip_retry_count == 0

\* IP_EVENT: the branch is chosen by the netif of the event alone
H_IP_EVENT ==
  /\ Alive
  /\ pc[EVT] = "h_crit"
  /\ cur.base = "IP_EVENT"
  /\ IF cur.netif = s_netif_sta
     THEN /\ s_sta_retry_count' = got_ip_retry_count
          /\ delays' = << >>
          /\ s_status' = [ s_status EXCEPT !.sta_status = NET_STATUS_CONNECTED,
                                           !.sta_ip_info = cur.ip ]
          /\ emitted' = Dispatch(emitted, Ev(NET_EVENT_SOURCE_STA, NET_STATUS_CONNECTED, cur.ip))
     ELSE IF cur.netif = s_netif_eth
     THEN /\ s_status' = [ s_status EXCEPT !.eth_status = NET_STATUS_CONNECTED,
                                           !.eth_ip_info = cur.ip ]
          /\ emitted' = Dispatch(emitted, Ev(NET_EVENT_SOURCE_ETHERNET, NET_STATUS_CONNECTED, cur.ip))
          /\ UNCHANGED << s_sta_retry_count, delays >>
     ELSE /\ emitted' = unhandled_emission
          /\ UNCHANGED << s_status, s_sta_retry_count, delays >>
  /\ HReturn
  /\ UNCHANGED calls
  /\ UNCHANGED handlerFrame

\* the four recognised ETH_EVENT ids
eth_status_of(id) ==
  CASE id = "ETHERNET_EVENT_CONNECTED"    -> NET_STATUS_CONNECTING
    [] id = "ETHERNET_EVENT_DISCONNECTED" -> NET_STATUS_DISCONNECTED
    [] id = "ETHERNET_EVENT_START"        -> NET_STATUS_STARTED
    [] id = "ETHERNET_EVENT_STOP"         -> NET_STATUS_STOPPED

H_ETH_EVENT ==
  /\ Alive
  /\ pc[EVT] = "h_crit"
  /\ cur.base = "ETH_EVENT"
  /\ cur.id # "ETHERNET_EVENT_OTHER"
  /\ s_status' = [ s_status EXCEPT !.eth_status = eth_status_of(cur.id) ]
  /\ emitted' = Dispatch(emitted, Ev(NET_EVENT_SOURCE_ETHERNET, eth_status_of(cur.id), NULL))
  /\ HReturn
  /\ UNCHANGED << s_sta_retry_count, delays, calls >>
  /\ UNCHANGED handlerFrame

\* the default branches: unhandled ids and unknown bases
H_Unhandled ==
  /\ Alive
  /\ pc[EVT] = "h_crit"
  /\ \/ cur.base = "WIFI_EVENT" /\ cur.id = "WIFI_EVENT_OTHER"
     \/ cur.base = "ETH_EVENT" /\ cur.id = "ETHERNET_EVENT_OTHER"
     \/ cur.base \notin { "WIFI_EVENT", "IP_EVENT", "ETH_EVENT" }
  /\ HReturn
  /\ emitted' = unhandled_emission
  /\ UNCHANGED << s_status, s_sta_retry_count, delays, calls >>
  /\ UNCHANGED handlerFrame

(* ---------------- the system ---------------- *)

Next ==
  \/ \E t \in AppTasks : InitCall(t)
  \/ \E t \in AppTasks : InitAlready(t)
  \/ \E t \in AppTasks, cb \in Callbacks : InitBody(t, cb)
  \/ \E t \in AppTasks : DeinitCall(t)
  \/ \E t \in AppTasks : DeinitBody(t)
  \/ \E t \in AppTasks : DeinitUnlock(t)
  \/ \E t \in AppTasks : DeinitDelete(t)
  \/ \E t \in AppTasks : StartCall(t)
  \/ \E t \in AppTasks, c \in Configs,
        ndev \in 0 .. MaxEthDevs, hnd \in { NULL, 1 } :
        StartBody(t, c, ndev, hnd)
  \/ \E t \in AppTasks : StopCall(t)
  \/ \E t \in AppTasks : StopBody(t)
  \/ \E t \in AppTasks, fn \in QueryFns : QueryCall(t, fn)
  \/ \E t \in AppTasks : QueryBody(t)
  \/ \E t \in AppTasks : Lock(t)
  \/ \E t \in AppTasks : Unlock(t)
  \/ \E e \in Events : Deliver(e)
  \/ HLock
  \/ HUnlock
  \/ H_STA_START
  \/ H_STA_DISCONNECTED
  \/ H_BackoffDone
  \/ \E addr \in 1 .. MaxIp : H_AP_START(addr)
  \/ H_AP_STOP
  \/ H_AP_STACONNECTED
  \/ H_AP_STADISCONNECTED
  \/ H_IP_EVENT
  \/ H_ETH_EVENT
  \/ H_Unhandled

Spec == Init /\ [][Next]_vars

\* the public API over the configuration store
NextNvs ==
  \/ \E t \in AppTasks : InitCall(t)
  \/ \E t \in AppTasks : InitAlready(t)
  \/ \E t \in AppTasks, cb \in Callbacks : InitBody(t, cb)
  \/ \E t \in AppTasks : StartCall(t)
  \/ \E t \in AppTasks, garbage \in Configs,
        ndev \in 0 .. MaxEthDevs, hnd \in { NULL, 1 } :
        StartAbsentBody(t, garbage, ndev, hnd)
  \/ \E t \in AppTasks : Lock(t)
  \/ \E t \in AppTasks : Unlock(t)
  \/ \E t \in AppTasks, c \in Configs : LoadCall(t, c)
  \/ \E t \in AppTasks : LoadBody(t)
  \/ \E t \in AppTasks : LoadReturn(t)
  \/ \E t \in AppTasks, c \in Configs : SaveCall(t, c)
  \/ \E t \in AppTasks, written \in BOOLEAN : SaveBody(t, written)
  \/ \E t \in AppTasks : SaveReturn(t)

SpecNvs == InitNvs /\ [][NextNvs]_vars

\* The firmware with no driver raising events and an empty store.
InitApi ==
  /\ InitProgram
  /\ env = { }
  /\ max_retries = 0
  /\ nvs = NoEntry
  /\ kconfig = NoConfig

\* one task calling every function of the public API
NextApi ==
  \/ \E t \in AppTasks : InitCall(t)
  \/ \E t \in AppTasks : InitAlready(t)
  \/ \E t \in AppTasks, cb \in Callbacks : InitBody(t, cb)
  \/ \E t \in AppTasks : DeinitCall(t)
  \/ \E t \in AppTasks : DeinitBody(t)
  \/ \E t \in AppTasks : DeinitUnlock(t)
  \/ \E t \in AppTasks : DeinitDelete(t)
  \/ \E t \in AppTasks : StartCall(t)
  \/ \E t \in AppTasks, c \in Configs,
        ndev \in 0 .. MaxEthDevs, hnd \in { NULL, 1 } :
        StartBody(t, c, ndev, hnd)
  \/ \E t \in AppTasks : StopCall(t)
  \/ \E t \in AppTasks : StopBody(t)
  \/ \E t \in AppTasks, fn \in QueryFns : QueryCall(t, fn)
  \/ \E t \in AppTasks : QueryBody(t)
  \/ \E t \in AppTasks : Lock(t)
  \/ \E t \in AppTasks : Unlock(t)
  \/ \E t \in AppTasks, c \in Configs : LoadCall(t, c)
  \/ \E t \in AppTasks : LoadBody(t)
  \/ \E t \in AppTasks : LoadReturn(t)
  \/ \E t \in AppTasks, c \in Configs : SaveCall(t, c)
  \/ \E t \in AppTasks, written \in BOOLEAN : SaveBody(t, written)
  \/ \E t \in AppTasks : SaveReturn(t)
  \/ \E t \in AppTasks, fn \in HandleFns, source \in Sources : HandleCall(t, fn, source)
  \/ \E t \in AppTasks, outcome \in { "ESP_OK", "ESP_FAIL", "ESP_ERR_WIFI_NOT_INIT", "crash" } :
        HandleUse(t, outcome)

SpecApi == InitApi /\ [][NextApi]_vars

\* The firmware with the station's driver raising events, one retry allowed
\* and an empty store.
InitRace ==
  /\ InitProgram
  /\ env = { "sta" }
  /\ max_retries = 1
  /\ nvs = NoEntry
  /\ kconfig = NoConfig

\* Two tasks of the application and the event loop: one task owns init and
\* deinit, both start and stop, the second reads the handles.
NextRace ==
  \/ \E t \in AppTasks : InitCall(t)
  \/ \E t \in AppTasks : InitAlready(t)
  \/ \E t \in AppTasks, cb \in Callbacks : InitBody(t, cb)
  \/ \E t \in AppTasks : DeinitCall(t)
  \/ \E t \in AppTasks : DeinitBody(t)
  \/ \E t \in AppTasks : DeinitUnlock(t)
  \/ \E t \in AppTasks : DeinitDelete(t)
  \/ \E t \in ApiTasks : StartCall(t)
  \/ \E t \in ApiTasks, c \in Configs,
        ndev \in 0 .. MaxEthDevs, hnd \in { NULL, 1 } :
        StartBody(t, c, ndev, hnd)
  \/ \E t \in ApiTasks : StopCall(t)
  \/ \E t \in ApiTasks : StopBody(t)
  \/ \E t \in ApiTasks : Lock(t)
  \/ \E t \in ApiTasks : Unlock(t)
  \/ \E t \in AuxTasks, fn \in HandleFns, source \in Sources : HandleCall(t, fn, source)
  \/ \E t \in AuxTasks, outcome \in { "ESP_OK", "ESP_FAIL", "ESP_ERR_WIFI_NOT_INIT", "crash" } :
        HandleUse(t, outcome)
  \/ \E e \in Events : Deliver(e)
  \/ HLock
  \/ HUnlock
  \/ H_STA_START
  \/ H_STA_DISCONNECTED
  \/ H_BackoffDone
  \/ H_IP_EVENT
  \/ H_Unhandled

SpecRace == InitRace /\ [][NextRace]_vars

\* The firmware built with unlimited retries (CONFIG_NET_MANAGER_STA_MAX_RETRIES
\* below 0), the station's driver raising events, an empty store.
InitBackoff ==
  /\ InitProgram
  /\ env = { "sta" }
  /\ max_retries = -1
  /\ nvs = NoEntry
  /\ kconfig = NoConfig

\* An application that initialises and starts the component, and an access
\* point that stays out of reach: the driver reports disconnect after
\* disconnect.
NextBackoff ==
  \/ \E t \in AppTasks : InitCall(t)
  \/ \E t \in AppTasks, cb \in Callbacks : InitBody(t, cb)
  \/ \E t \in AppTasks : StartCall(t)
  \/ \E t \in AppTasks, c \in Configs : StartBody(t, c, 0, NULL)
  \/ \E t \in AppTasks : Lock(t)
  \/ \E t \in AppTasks : Unlock(t)
  \/ DeliverStreak
  \/ HLock
  \/ HUnlock
  \/ H_STA_DISCONNECTED
  \/ H_BackoffDone

SpecBackoff == InitBackoff /\ [][NextBackoff]_vars

TypeOK ==
  /\ s_is_initialized \in BOOLEAN
  /\ owner \in Tasks \cup { NOBODY }
  /\ s_status.ap_connected_clients \in 0 .. U8 - 1

(* ================= properties ================= *)

Range(seq) == { seq[i] : i \in DOMAIN seq }

IsPrefix(a, b) == Len(a) <= Len(b) /\ \A i \in 1 .. Len(a) : a[i] = b[i]

\* the handler holds the lock and is about to run the STA disconnect case
AtStaDisconnect ==
  /\ pc[EVT] = "h_crit"
  /\ cur.base = "WIFI_EVENT"
  /\ cur.id = "WIFI_EVENT_STA_DISCONNECTED"

\* the handler has finished the STA disconnect case without reconnecting
GaveUp ==
  /\ pc[EVT] = "h_done"
  /\ cur.id = "WIFI_EVENT_STA_DISCONNECTED"
  /\ "esp_wifi_connect" \notin Range(calls)

StaConnecting == Ev(NET_EVENT_SOURCE_STA, NET_STATUS_CONNECTING, NULL)
StaDisconnected == Ev(NET_EVENT_SOURCE_STA, NET_STATUS_DISCONNECTED, NULL)

Backoff248 == << 2 * BASE_DELAY_MS, 4 * BASE_DELAY_MS, 8 * BASE_DELAY_MS >>

\* C3: with a retry limit of 3, consecutive STA disconnects wait 2, 4 and 8
\* base units before the first, second and third retry, and a disconnect after
\* the third retry emits no Connecting.
C3_Scenario248 ==
  max_retries = 3 =>
    /\ IsPrefix(delays, Backoff248)
    /\ pc[EVT] = "h_backoff" => Len(delays) \in 1 .. 3
    /\ (pc[EVT] = "h_done" /\ cur.id = "WIFI_EVENT_STA_DISCONNECTED"
          /\ StaConnecting \in Range(emitted)) => "esp_wifi_connect" \in Range(calls)
    /\ GaveUp => Len(delays) = 3 /\ StaConnecting \notin Range(emitted)

C3_Witness ==
  /\ max_retries = 3
  /\ delays = Backoff248
  /\ GaveUp
  /\ s_user_callback # NULL
  /\ StaConnecting \notin Range(emitted)

\* C4 as stated: a STA disconnect that finds the retries exhausted
\* (n >= M >= 0) gives the subscriber exactly one Disconnected event and
\* nothing more, issues no connect and leaves the station Disconnected and
\* the retry counter as it was.
C4_OneDisconnectedOnGiveUp ==
  [][ (AtStaDisconnect /\ pc'[EVT] # pc[EVT]
         /\ max_retries >= 0 /\ s_sta_retry_count >= max_retries
         /\ s_user_callback # NULL)
        => /\ emitted' = << StaDisconnected >>
           /\ calls' = calls
           /\ s_status'.sta_status = NET_STATUS_DISCONNECTED
           /\ s_sta_retry_count' = s_sta_retry_count ]_vars

\* C5 as stated: the AP client counter saturates: a join adds 1, a leave
\* subtracts 1 but never below 0, so a leave at 0 leaves it at 0.
C5_ClientsSaturate ==
  [][ (pc[EVT] = "h_crit" /\ pc'[EVT] # pc[EVT] /\ cur.base = "WIFI_EVENT")
        => LET n == s_status.ap_connected_clients IN
             /\ (cur.id = "WIFI_EVENT_AP_STACONNECTED" /\ n < U8 - 1)
                  => s_status'.ap_connected_clients = n + 1
             /\ cur.id = "WIFI_EVENT_AP_STADISCONNECTED"
                  => s_status'.ap_connected_clients = IF n = 0 THEN 0 ELSE n - 1 ]_vars

\* C6 as stated: while a stop() is waiting and the handler of a STA disconnect
\* is in its backoff wait, the reconnect of that wait (connect call, status
\* Connecting, Connecting emission) does not execute.
C6_StopCancelsReconnect ==
  [][ (pc[EVT] = "h_backoff" /\ \E t \in AppTasks : pc[t] = "stop_lock")
        => /\ calls' = calls
           /\ s_status'.sta_status = s_status.sta_status
           /\ emitted' = emitted ]_vars

\* C7 as stated: between the return of a stop and the next start no event
\* the handler processes issues a STA connect or moves the station from
\* Stopped to Disconnected or Connecting.
C7_NoResurrection ==
  [][ (phase = "stopped" /\ phase' = "stopped"
         /\ pc[EVT] \in { "h_crit", "h_backoff" } /\ pc'[EVT] # pc[EVT])
        => /\ "esp_wifi_connect" \notin Range(calls')
           /\ s_status.sta_status = NET_STATUS_STOPPED
                => s_status'.sta_status \notin
                     { NET_STATUS_DISCONNECTED, NET_STATUS_CONNECTING } ]_vars

\* everything stop_all_interfaces() is to leave behind
StoppedState ==
  /\ s_status = [ sta_status |-> NET_STATUS_STOPPED, ap_status |-> NET_STATUS_STOPPED,
                  eth_status |-> NET_STATUS_STOPPED,
                  sta_ip_info |-> 0, ap_ip_info |-> 0, eth_ip_info |-> 0,
                  ap_connected_clients |-> 0 ]
  /\ s_sta_retry_count = 0
  /\ s_netif_sta = NULL /\ s_netif_ap = NULL /\ s_netif_eth = NULL
  /\ s_eth_handles = NULL

\* C8: when stop() is through, the three statuses are Stopped, the retry
\* counter, all address info and the client counter are zero, every handle is
\* null and the result is success; a stop() entered in that state changes
\* nothing.
C8_StopResetsAndIsIdempotent ==
  [][ \A t \in AppTasks :
        (pc[t] = "stop_crit" /\ pc'[t] = "stop_done")
          => /\ StoppedState'
             /\ ret'[t] = "ESP_OK"
             /\ StoppedState => globals' = globals ]_vars

C8_Witness ==
  \E t \in AppTasks :
    /\ pc[t] = "stop_done"
    /\ "sta" \in up
    /\ calls = << >>
    /\ StoppedState
    /\ ret[t] = "ESP_OK"

\* every a in the sequence comes before every b
Precedes(seq, a, b) ==
  \A i, j \in DOMAIN seq : (seq[i] = a /\ seq[j] = b) => i < j

TeardownOrder(seq) ==
  /\ Precedes(seq, "esp_netif_destroy(eth)", "ethernet_deinit_all")
  /\ Precedes(seq, "esp_netif_destroy(eth)", "esp_wifi_stop")
  /\ Precedes(seq, "ethernet_deinit_all", "esp_wifi_stop")
  /\ Precedes(seq, "esp_wifi_stop", "esp_wifi_deinit")
  /\ Precedes(seq, "esp_wifi_deinit", "esp_netif_destroy(sta)")
  /\ Precedes(seq, "esp_wifi_deinit", "esp_netif_destroy(ap)")
  /\ Precedes(seq, "esp_wifi_stop", "esp_netif_destroy(sta)")
  /\ Precedes(seq, "esp_wifi_stop", "esp_netif_destroy(ap)")
  /\ ("esp_wifi_stop" \in Range(seq)) <=>
        ("esp_netif_destroy(sta)" \in Range(seq) \/ "esp_netif_destroy(ap)" \in Range(seq))
  /\ ("esp_wifi_stop" \in Range(seq)) <=> ("esp_wifi_deinit" \in Range(seq))

\* C9: every teardown destroys the Ethernet attachment handle and releases
\* the Ethernet driver first, then, only if a STA or AP handle exists, stops
\* and deinitialises the radio, and only then destroys the STA and AP handles.
C9_TeardownOrder ==
  /\ []( (\E t \in AppTasks : pc[t] \in { "stop_done", "deinit_done", "start_done" })
           => TeardownOrder(calls) )
  /\ [][ \A t \in AppTasks :
           (pc[t] \in { "stop_crit", "deinit_crit" } /\ pc'[t] # pc[t])
             => /\ ("esp_netif_destroy(eth)" \in Range(calls')) <=> (s_netif_eth # NULL)
                /\ ("esp_netif_destroy(sta)" \in Range(calls')) <=> (s_netif_sta # NULL)
                /\ ("esp_netif_destroy(ap)" \in Range(calls')) <=> (s_netif_ap # NULL) ]_vars

C9_Witness ==
  \E t \in AppTasks :
    /\ pc[t] = "stop_done"
    /\ calls = << "esp_netif_destroy(eth)", "ethernet_deinit_all", "esp_wifi_stop",
                  "esp_wifi_deinit", "esp_netif_destroy(sta)", "esp_netif_destroy(ap)" >>

\* C10 as stated: when start(cfg) is through, the non-null interface handles
\* are exactly the interfaces enabled in cfg and the retry counter is 0.
C10_HandlesMatchConfig ==
  \A t \in AppTasks :
    pc[t] = "start_done" =>
      /\ (s_netif_sta # NULL) <=> cfg.wifi_sta_enabled
      /\ (s_netif_ap # NULL) <=> cfg.wifi_ap_enabled
      /\ (s_netif_eth # NULL) <=> cfg.ethernet_enabled
      /\ s_sta_retry_count = 0

\* C10 amended: start() runs the full teardown first: every handle of the
\* previous run is destroyed before any is created, and the retry counter is
\* 0 afterwards; the STA and AP handles are then non-null exactly when enabled
\* in cfg, and the Ethernet handle exactly when Ethernet is enabled and its
\* bring-up found a device (it stays null when the bring-up fails).
C10_StartReplacesHandles ==
  [][ \A t \in AppTasks :
        (pc[t] = "start_crit" /\ pc'[t] = "start_done")
          => /\ (s_netif_sta' # NULL) <=> cfg'.wifi_sta_enabled
             /\ (s_netif_ap' # NULL) <=> cfg'.wifi_ap_enabled
             /\ (s_netif_eth' # NULL) <=>
                   (cfg'.ethernet_enabled /\ s_eth_handles_num' > 0)
             /\ s_sta_retry_count' = 0
             /\ s_netif_sta # NULL => "esp_netif_destroy(sta)" \in Range(calls')
             /\ s_netif_ap # NULL => "esp_netif_destroy(ap)" \in Range(calls')
             /\ s_netif_eth # NULL => "esp_netif_destroy(eth)" \in Range(calls')
             /\ Precedes(calls', "esp_netif_destroy(sta)", "esp_netif_create_default_wifi_sta")
             /\ Precedes(calls', "esp_netif_destroy(ap)", "esp_netif_create_default_wifi_ap")
             /\ Precedes(calls', "esp_netif_destroy(eth)", "esp_netif_new(eth)") ]_vars

C10_Witness ==
  \E t \in AppTasks :
    /\ pc[t] = "start_done"
    /\ "esp_netif_destroy(sta)" \in Range(calls)
    /\ "esp_netif_create_default_wifi_sta" \in Range(calls)
    /\ "esp_netif_destroy(eth)" \in Range(calls)
    /\ cfg.ethernet_enabled
    /\ s_netif_eth = NULL

\* no handler and no API call is in progress
Quiescent == \A t \in Tasks : pc[t] = "idle"

\* C11 as stated: when the Ethernet bring-up of a start() fails (no device
\* detected), start() returns a failure, no Ethernet attachment handle is left
\* and the Wi-Fi interfaces enabled in the same configuration are started.
C11_EthFailureReported ==
  \A t \in AppTasks :
    (pc[t] = "start_done" /\ cfg.ethernet_enabled /\ s_eth_handles_num = 0)
      => /\ ret[t] # "ESP_OK"
         /\ s_netif_eth = NULL
         /\ cfg.wifi_sta_enabled => (s_netif_sta # NULL /\ wifi_drv = "started")
         /\ cfg.wifi_ap_enabled => (s_netif_ap # NULL /\ wifi_drv = "started")

HandlerStep == pc[EVT] \in { "h_crit", "h_backoff" } /\ pc'[EVT] # pc[EVT]

\* an API task completes the locked body of init, deinit, start or stop
ResetStep ==
  \E t \in AppTasks :
    pc[t] \in { "init_crit", "deinit_crit", "start_crit", "stop_crit" } /\ pc'[t] # pc[t]

C13_QueriesReadSnapshot ==
  /\ []( \A t \in AppTasks :
           pc[t] = "query_done" =>
             /\ owner = t
             /\ pc[EVT] \in { "idle", "h_lock" }
             /\ out.fn = "get_status" => out.status = s_status
             /\ out.fn = "is_sta_connected" =>
                  (out.connected <=> s_status.sta_status = NET_STATUS_CONNECTED)
             /\ out.fn = "is_eth_connected" =>
                  (out.connected <=> s_status.eth_status = NET_STATUS_CONNECTED) )
  /\ [][ \A t \in AppTasks :
           (pc[t] \in QCritPcs /\ pc'[t] = "query_done")
             => /\ pc[EVT] \in { "idle", "h_lock" }
                /\ s_status' = s_status ]_vars

C13_Witness ==
  \E t \in AppTasks :
    /\ pc[t] = "query_done"
    /\ out.fn = "get_status"
    /\ out.status.sta_status = NET_STATUS_CONNECTED
    /\ pc[EVT] = "h_lock"
    /\ cur.id = "WIFI_EVENT_STA_DISCONNECTED"

\* raw events event_handler has no case for
Unrecognised ==
  \/ cur.base = "WIFI_EVENT" /\ cur.id = "WIFI_EVENT_OTHER"
  \/ cur.base = "ETH_EVENT" /\ cur.id = "ETHERNET_EVENT_OTHER"
  \/ cur.base \notin { "WIFI_EVENT", "IP_EVENT", "ETH_EVENT" }
  \/ cur.base = "IP_EVENT" /\ cur.netif \notin { s_netif_sta, s_netif_eth }

\* C14: a Wi-Fi or Ethernet event id outside the handled set, an event of an
\* unknown base, or an IP event for a handle that is neither the STA nor the
\* Ethernet handle changes neither the status record nor the retry counter,
\* emits nothing to the subscriber, and the handler then releases the lock.
C14_UnrecognisedDropped ==
  /\ [][ (pc[EVT] = "h_crit" /\ pc'[EVT] # pc[EVT] /\ Unrecognised)
          => /\ s_status' = s_status
             /\ s_sta_retry_count' = s_sta_retry_count
             /\ emitted' = << >>
             /\ calls' = calls
             /\ pc'[EVT] = "h_done" ]_vars
  /\ [][ (pc[EVT] = "h_done" /\ pc'[EVT] # pc[EVT])
          => (owner = EVT /\ owner' = NOBODY /\ pc'[EVT] = "idle") ]_vars

C14_Witness ==
  /\ pc[EVT] = "h_done"
  /\ cur.base = "IP_EVENT"
  /\ cur.netif = NETIF_OTHER
  /\ s_netif_ap # NULL
  /\ s_user_callback # NULL
  /\ emitted = << >>

\* C15 as stated: an IP event whose id is not the address-acquired one and
\* that carries the STA or Ethernet handle is dropped: no status change, no
\* reset of the retry counter, no address overwritten, nothing emitted.
C15_OnlyGotIpConnects ==
  [][ (pc[EVT] = "h_crit" /\ pc'[EVT] # pc[EVT]
         /\ cur.base = "IP_EVENT" /\ cur.id # "IP_EVENT_GOT_IP")
        => /\ s_status' = s_status
           /\ s_sta_retry_count' = s_sta_retry_count
           /\ emitted' = << >> ]_vars

\* C16 as stated: on an Ethernet link-down event the component attempts a
\* reconnect with exponential backoff as it does for the station: the handler
\* enters a backoff wait or issues a reconnect call.
C16_EthReconnects ==
  [][ (pc[EVT] = "h_crit" /\ pc'[EVT] # pc[EVT]
         /\ cur.base = "ETH_EVENT" /\ cur.id = "ETHERNET_EVENT_DISCONNECTED")
        => \/ pc'[EVT] = "h_backoff"
           \/ delays' # delays
           \/ calls' # calls ]_vars

\* what an API call that does nothing must leave alone
Component == << globals, owner, registered, wifi_drv, eth_drv >>

\* C17: init() called while the component is initialized takes the early
\* return: it creates no lock, registers nothing, leaves the callback, the
\* status record and the retry counter as they are, and returns success.
C17_InitIdempotent ==
  [][ \A t \in AppTasks :
        /\ (pc[t] = "idle" /\ s_is_initialized /\ pc'[t] \in { "init_lock", "init_already" })
              => (pc'[t] = "init_already" /\ Component' = Component)
        /\ (pc[t] = "init_already" /\ pc'[t] # pc[t])
              => /\ pc'[t] = "idle"
                 /\ ret'[t] = "ESP_OK"
                 /\ s_is_initialized => Component' = Component ]_vars

C17_Witness ==
  \E t \in AppTasks :
    /\ pc[t] = "init_already"
    /\ s_is_initialized
    /\ s_user_callback # NULL
    /\ s_netif_sta # NULL
    /\ s_status.sta_status = NET_STATUS_CONNECTED

C19_LoadMismatchLeavesConfig ==
  [][ \A t \in AppTasks :
        (pc[t] = "load_run" /\ pc'[t] = "load_done" /\ nvs.open = "ESP_OK")
          => /\ ~nvs.found => ret'[t] = "ESP_ERR_NVS_NOT_FOUND"
             /\ (nvs.found /\ Len(nvs.blob) # CfgSize)
                  => /\ ret'[t] \notin { "ESP_OK", "ESP_ERR_NVS_NOT_FOUND" }
                     /\ cfg' = cfg ]_vars

\* the stored entry is one load_config accepts
Loadable == nvs.open = "ESP_OK" /\ nvs.found /\ Len(nvs.blob) = CfgSize

\* C20: start(NULL) works with the stored configuration when the store opens
\* and holds an entry of the configuration's size, and in every other case
\* with exactly the compiled-in defaults, whatever a failed load wrote; the
\* interfaces it creates are those of that configuration.
C20_AbsentConfigLoadedOrDefaults ==
  [][ \A t \in AppTasks :
        (pc[t] = "start_crit" /\ pc'[t] = "start_done")
          => /\ cfg' = IF Loadable THEN ConfigOf(nvs.blob) ELSE kconfig
             /\ (s_netif_sta' # NULL) <=> cfg'.wifi_sta_enabled
             /\ (s_netif_ap' # NULL) <=> cfg'.wifi_ap_enabled
             /\ (s_netif_eth' # NULL) <=>
                   (cfg'.ethernet_enabled /\ s_eth_handles_num' > 0) ]_vars

\* a start(NULL) is through over a stored blob shorter than the configuration
\* whose first member is set, the default of that member being clear
C20_Witness ==
  \E t \in AppTasks :
    /\ pc[t] = "start_done"
    /\ nvs.open = "ESP_OK" /\ nvs.found
    /\ Len(nvs.blob) < CfgSize
    /\ nvs.blob[1]
    /\ ~kconfig.wifi_sta_enabled
    /\ cfg = kconfig
    /\ s_netif_sta = NULL

\* net_manager_save_config_to_nvs / net_manager_load_config_from_nvs run
\* from nvs_open to the return statement
SaveStep(t) == pc[t] = "save_run" /\ pc'[t] = "save_done"
LoadStep(t) == pc[t] = "load_run" /\ pc'[t] = "load_done"

\* C21: a save_config(C) that returns ESP_OK leaves the image of C in the
\* store, nothing but a save changes the store, and a load_config over a
\* store holding the image of C returns ESP_OK with the caller's object equal
\* to C; over a store holding no entry it returns ESP_ERR_NVS_NOT_FOUND.
C21_SaveLoadRoundTrip ==
  [][ \A t \in AppTasks :
        /\ (SaveStep(t) /\ ret'[t] = "ESP_OK")
              => nvs'.found /\ nvs'.blob = Image(cfg)
        /\ nvs' # nvs => SaveStep(t)
        /\ (LoadStep(t) /\ nvs.open = "ESP_OK")
              => /\ \A c \in Configs :
                      (nvs.found /\ nvs.blob = Image(c))
                         => (ret'[t] = "ESP_OK" /\ cfg' = c)
                 /\ ~nvs.found => ret'[t] = "ESP_ERR_NVS_NOT_FOUND" ]_vars

\* a load has returned ESP_OK with an object that differs from the one the
\* caller handed in only by what the store held
C21_Witness ==
  \E t \in AppTasks :
    /\ pc[t] = "load_done"
    /\ ret[t] = "ESP_OK"
    /\ nvs.found /\ nvs.blob = Image(cfg)
    /\ cfg.wifi_sta_enabled /\ ~cfg.ethernet_enabled

\* everything a handle query could touch besides its own position and result
stateOfComponent == << s_is_initialized, s_component_mutex, owner, s_netif_sta,
                       s_netif_ap, s_netif_eth, s_eth_handles, s_eth_handles_num,
                       s_status, s_user_callback, s_sta_retry_count, registered,
                       wifi_drv, eth_drv, calls, emitted, nvs >>

\* C22: get_ip_info(source) and get_dns_info(source, which) return
\* ESP_ERR_INVALID_ARG at once, leaving all state as it is, when source is the
\* access point or the handle of the station / Ethernet source is NULL; they
\* go on to the IP stack, with that handle, only when it is not NULL.
C22_IpQueriesNeedHandle ==
  [][ \A t \in AppTasks, fn \in { "get_ip_info", "get_dns_info" }, source \in Sources :
        (HandleCall(t, fn, source) /\ s_is_initialized)
          => LET h == CASE source = NET_EVENT_SOURCE_STA -> s_netif_sta
                        [] source = NET_EVENT_SOURCE_ETHERNET -> s_netif_eth
                        [] OTHER -> NULL
             IN /\ UNCHANGED stateOfComponent
                /\ ~aborted'
                /\ IF h = NULL
                   THEN ret'[t] = "ESP_ERR_INVALID_ARG" /\ pc'[t] = "idle"
                   ELSE pc'[t] = "handle_use" /\ out'.netif = h ]_vars

\* an address query was refused although all three interfaces are up: it
\* asked for the access point
C22_Witness ==
  \E t \in AppTasks :
    /\ pc[t] = "idle"
    /\ ret[t] = "ESP_ERR_INVALID_ARG"
    /\ s_netif_sta # NULL /\ s_netif_ap # NULL /\ s_netif_eth # NULL

\* C23: get_ap_clients() returns ESP_ERR_WIFI_NOT_STARTED at once, without
\* going to the AP driver, when there is no AP handle, and goes to the driver
\* only when the handle is not NULL.
C23_ApClientsNeedHandle ==
  [][ \A t \in AppTasks, source \in Sources :
        (HandleCall(t, "get_ap_clients_list", source) /\ s_is_initialized)
          => /\ UNCHANGED stateOfComponent
             /\ ~aborted'
             /\ IF s_netif_ap = NULL
                THEN ret'[t] = "ESP_ERR_WIFI_NOT_STARTED" /\ pc'[t] = "idle"
                ELSE pc'[t] = "handle_use" /\ out'.fn = "get_ap_clients_list" ]_vars

\* the client list was refused after a stop had returned
C23_Witness ==
  \E t \in AppTasks :
    /\ pc[t] = "idle"
    /\ ret[t] = "ESP_ERR_WIFI_NOT_STARTED"
    /\ phase = "stopped"
    /\ s_netif_ap = NULL

\* a call of a function of the public API other than init and deinit
GuardedCall(t) ==
  \/ StartCall(t)
  \/ StopCall(t)
  \/ \E fn \in QueryFns : QueryCall(t, fn)
  \/ \E fn \in HandleFns, source \in Sources : HandleCall(t, fn, source)
  \/ \E c \in Configs : LoadCall(t, c)
  \/ \E c \in Configs : SaveCall(t, c)

\* C24: a call of start, stop, get_status, is_sta_connected,
\* is_eth_connected, get_ap_clients, save_config, load_config, get_ip_info or
\* get_dns_info made while s_is_initialized is false raises the assert:
\* the firmware stops there, no result is returned, the lock is not touched
\* and no state changes; nothing runs after the assert.
C24_UninitializedCallAsserts ==
  [][ /\ ~aborted
      /\ \A t \in AppTasks :
           (GuardedCall(t) /\ ~s_is_initialized)
             => /\ aborted'
                /\ UNCHANGED << s_is_initialized, s_component_mutex, owner, s_netif_sta,
                                s_netif_ap, s_netif_eth, s_eth_handles, s_eth_handles_num,
                                s_status, s_user_callback, s_sta_retry_count, registered,
                                wifi_drv, eth_drv, cfg, pc, cur, emitted, calls, delays,
                                out, nvs, ret >> ]_vars

\* the assert was raised by a call made after a deinit, which left the
\* statuses at Stopped
C24_Witness ==
  /\ aborted
  /\ ~s_is_initialized
  /\ s_component_mutex = NULL
  /\ s_status.sta_status = NET_STATUS_STOPPED

\* C25: the STA disconnect case sets the STA status to Disconnected and hands
\* the Disconnected event to the subscriber before the retry is decided: when
\* the handler enters the backoff wait, or gives up, the subscriber has been
\* told and neither a reconnect nor a Connecting emission has happened; the
\* Connecting emission of the retry follows the wait, so within the run of the
\* handler every Connecting is preceded by the Disconnected.
C25_DisconnectedBeforeRetry ==
  /\ [][ (AtStaDisconnect /\ pc'[EVT] # pc[EVT])
          => /\ s_status'.sta_status = NET_STATUS_DISCONNECTED
             /\ s_user_callback # NULL
                  => (Len(emitted') >= 1 /\ emitted'[1] = StaDisconnected)
             /\ StaConnecting \notin Range(emitted')
             /\ "esp_wifi_connect" \notin Range(calls')
             /\ pc'[EVT] = "h_backoff" => Len(delays') = Len(delays) + 1 ]_vars
  /\ [][ (pc[EVT] = "h_backoff" /\ pc'[EVT] # pc[EVT])
          => /\ emitted' = Dispatch(emitted, StaConnecting)
             /\ delays' = delays ]_vars
  /\ []( cur.id = "WIFI_EVENT_STA_DISCONNECTED"
          => \A i \in DOMAIN emitted :
               emitted[i] = StaConnecting
                 => \E j \in 1 .. i - 1 : emitted[j] = StaDisconnected )

\* a retry is through: the subscriber was told Disconnected, then Connecting
C25_Witness ==
  /\ pc[EVT] = "h_done"
  /\ cur.id = "WIFI_EVENT_STA_DISCONNECTED"
  /\ emitted = << StaDisconnected, StaConnecting >>
  /\ Len(delays) >= 1

\* the handler runs the IP_EVENT branch for an address-acquired event
AtGotIp ==
  /\ pc[EVT] = "h_crit" /\ pc'[EVT] # pc[EVT]
  /\ cur.base = "IP_EVENT" /\ cur.id = "IP_EVENT_GOT_IP"

\* what the subscriber of this run is handed for the event ev, and nothing else
Handed(ev) == IF s_user_callback # NULL THEN << ev >> ELSE << >>

\* C26: an address-acquired event for the STA handle sets the retry counter
\* to 0 (so that all max_retries retries are to be had again), the STA status
\* to Connected and the STA address to the event's, and hands the subscriber
\* one Connected event carrying that address; one for the Ethernet handle does
\* the same for Ethernet and leaves the retry counter as it is.  Nothing else
\* of the status record changes.
C26_AddressAcquired ==
  [][ /\ (AtGotIp /\ cur.netif = s_netif_sta)
            => /\ s_sta_retry_count' = 0
               /\ max_retries > 0 => s_sta_retry_count' < max_retries
               /\ s_status' = [ s_status EXCEPT !.sta_status = NET_STATUS_CONNECTED,
                                                !.sta_ip_info = cur.ip ]
               /\ emitted' = Handed(Ev(NET_EVENT_SOURCE_STA, NET_STATUS_CONNECTED, cur.ip))
      /\ (AtGotIp /\ cur.netif # s_netif_sta /\ cur.netif = s_netif_eth)
            => /\ s_sta_retry_count' = s_sta_retry_count
               /\ s_status' = [ s_status EXCEPT !.eth_status = NET_STATUS_CONNECTED,
                                                !.eth_ip_info = cur.ip ]
               /\ emitted' = Handed(Ev(NET_EVENT_SOURCE_ETHERNET, NET_STATUS_CONNECTED,
                                       cur.ip)) ]_vars

\* the station got its address after a retry: the handler has reset the
\* counter and told the subscriber
C26_Witness ==
  /\ pc[EVT] = "h_done"
  /\ cur.id = "IP_EVENT_GOT_IP" /\ cur.netif = NETIF_STA
  /\ s_sta_retry_count = 0
  /\ max_retries > 0
  /\ s_status.sta_status = NET_STATUS_CONNECTED /\ s_status.sta_ip_info = cur.ip
  /\ emitted = << Ev(NET_EVENT_SOURCE_STA, NET_STATUS_CONNECTED, cur.ip) >>

\* C27: on WIFI_EVENT_STA_START the handler calls esp_wifi_connect once, sets
\* the STA status to Connecting and hands the subscriber one Connecting
\* event; the retry counter and the rest of the status record stay as they
\* are, and the STA status is never Started.
C27_StaStartConnects ==
  /\ [][ (pc[EVT] = "h_crit" /\ pc'[EVT] # pc[EVT]
            /\ cur.base = "WIFI_EVENT" /\ cur.id = "WIFI_EVENT_STA_START")
          => /\ calls' = << "esp_wifi_connect" >>
             /\ s_status' = [ s_status EXCEPT !.sta_status = NET_STATUS_CONNECTING ]
             /\ emitted' = Handed(StaConnecting)
             /\ s_sta_retry_count' = s_sta_retry_count ]_vars
  /\ []( s_status.sta_status # NET_STATUS_STARTED )

\* the handler is through with a STA start event
C27_Witness ==
  /\ pc[EVT] = "h_done"
  /\ cur.id = "WIFI_EVENT_STA_START"
  /\ calls = << "esp_wifi_connect" >>
  /\ emitted = << StaConnecting >>
  /\ s_status.sta_status = NET_STATUS_CONNECTING

\* the sections of event_handler, start, stop and deinit that write s_status
\* and s_sta_retry_count
WriterPcs == { "h_crit", "h_backoff", "start_crit", "stop_crit", "deinit_crit" }

\* C28 as stated: no two tasks are ever inside a section that writes the
\* status record or the retry counter at the same time, and every such
\* section of the event handler, start(), stop() and deinit() is run to its
\* end by a task that holds the component's one existing mutex.
C28_WritesUnderLock ==
  /\ []( \A t, u \in Tasks :
            (pc[t] \in WriterPcs /\ pc[u] \in WriterPcs) => t = u )
  /\ [][ \A t \in Tasks :
            (pc[t] \in WriterPcs /\ pc'[t] # pc[t])
               => (s_component_mutex # NULL /\ owner = t) ]_vars

\* C29 as stated: while get_ip_info, get_dns_info or get_ap_clients is
\* between reading a handle and using it, no stop(), start() or deinit()
\* destroys that handle: the handle it read is still the live handle of its
\* interface when it is used.
C29_HandleLiveWhileUsed ==
  \A t \in ApiTasks :
    pc[t] = "handle_use" => live(out.netif)

\* the statuses that describe the connection of an interface
ConnectionStates == { NET_STATUS_STARTED, NET_STATUS_STOPPED, NET_STATUS_CONNECTING,
                      NET_STATUS_CONNECTED, NET_STATUS_DISCONNECTED }

\* the status the record st holds for the interface source
StatusOf(st, source) ==
  CASE source = NET_EVENT_SOURCE_STA -> st.sta_status
    [] source = NET_EVENT_SOURCE_AP -> st.ap_status
    [] source = NET_EVENT_SOURCE_ETHERNET -> st.eth_status

Occurrences(seq, c) == Cardinality({ i \in DOMAIN seq : seq[i] = c })

SetModeCalls == { "esp_wifi_set_mode(WIFI_MODE_APSTA)", "esp_wifi_set_mode(WIFI_MODE_STA)",
                  "esp_wifi_set_mode(WIFI_MODE_AP)" }

\* the driver calls by which start() applies a configuration to an interface
BringUpCalls == { "esp_netif_create_default_wifi_sta", "esp_wifi_set_config(sta)",
                  "esp_netif_create_default_wifi_ap", "esp_wifi_set_config(ap)",
                  "ethernet_init_all", "esp_netif_new(eth)", "esp_netif_attach(eth)",
                  "esp_eth_start" }

\* C31: a start() whose configuration enables STA or AP calls esp_wifi_init
\* once, sets the mode once, to STA, AP or APSTA as STA alone, AP alone or
\* both are enabled, configures every enabled Wi-Fi interface, attempts the
\* Ethernet bring-up if enabled, and calls esp_wifi_start once, as its last
\* driver call; a start() that enables neither makes no esp_wifi_init, no
\* esp_wifi_set_mode and no esp_wifi_start call.
C31_RadioBringUp ==
  [][ \A t \in AppTasks :
        (pc[t] = "start_crit" /\ pc'[t] = "start_done")
          => LET sta == cfg'.wifi_sta_enabled
                 ap == cfg'.wifi_ap_enabled
                 mode == IF sta /\ ap THEN "esp_wifi_set_mode(WIFI_MODE_APSTA)"
                         ELSE IF sta THEN "esp_wifi_set_mode(WIFI_MODE_STA)"
                         ELSE "esp_wifi_set_mode(WIFI_MODE_AP)"
             IN IF sta \/ ap
                THEN /\ Occurrences(calls', "esp_wifi_init") = 1
                     /\ Occurrences(calls', mode) = 1
                     /\ Range(calls') \cap SetModeCalls = { mode }
                     /\ Precedes(calls', "esp_wifi_init", mode)
                     /\ Occurrences(calls', "esp_wifi_start") = 1
                     /\ calls'[Len(calls')] = "esp_wifi_start"
                     /\ sta <=> "esp_wifi_set_config(sta)" \in Range(calls')
                     /\ ap <=> "esp_wifi_set_config(ap)" \in Range(calls')
                     /\ cfg'.ethernet_enabled <=> "ethernet_init_all" \in Range(calls')
                     /\ \A c \in BringUpCalls :
                          /\ Precedes(calls', mode, c)
                          /\ Precedes(calls', c, "esp_wifi_start")
                ELSE Range(calls') \cap ({ "esp_wifi_init", "esp_wifi_start" }
                                           \cup SetModeCalls) = { } ]_vars

\* a start() of the station with Ethernet is through: the radio was set to
\* STA mode and started after the Ethernet bring-up
C31_Witness ==
  \E t \in AppTasks :
    /\ pc[t] = "start_done"
    /\ cfg.wifi_sta_enabled /\ ~cfg.wifi_ap_enabled /\ cfg.ethernet_enabled
    /\ "esp_wifi_set_mode(WIFI_MODE_STA)" \in Range(calls)
    /\ "esp_eth_start" \in Range(calls)
    /\ calls[Len(calls)] = "esp_wifi_start"

\* where start(), stop() and the event handler wait in LOCK()
WaitingPcs == { "start_lock", "stop_lock", "h_lock" }

\* the sections of start(), stop() and the event handler that write s_status
\* and hand events to the subscriber
UserPcs == { "start_crit", "stop_crit", "h_crit", "h_backoff" }

\* C32 as stated: once deinit() has marked the component uninitialized, no
\* start(), stop() or event handler that was waiting in LOCK() gets the
\* mutex, and none of them takes a step of its critical section (a write of
\* the status record, an emission to the subscriber).
C32_NoUseAfterDeinit ==
  /\ [][ \A t \in Tasks :
            (pc[t] \in WaitingPcs /\ pc'[t] \in UserPcs) => s_is_initialized ]_vars
  /\ [][ \A t \in Tasks :
            (pc[t] \in UserPcs /\ pc'[t] # pc[t]) => s_is_initialized ]_vars

\* C33 as stated: with unlimited retries every retry of a streak of STA
\* disconnects counts the retry counter up by one without wrapping, shifts
\* by less than the width of int, and waits a delay that is positive and not
\* smaller than the delay of the retry before it.
C33_BackoffGrows ==
  [][ (pc[EVT] = "h_crit" /\ pc'[EVT] = "h_backoff" /\ max_retries < 0)
        => /\ s_sta_retry_count' = s_sta_retry_count + 1
           /\ s_sta_retry_count' < INT_BITS
           /\ delays'[Len(delays')] > 0
           /\ Len(delays) > 0 => delays'[Len(delays')] >= delays[Len(delays)] ]_vars

\* the part of the status record that belongs to the interface i
FieldsOf(st, i) ==
  CASE i = "sta" -> << st.sta_status, st.sta_ip_info >>
    [] i = "ap"  -> << st.ap_status, st.ap_ip_info, st.ap_connected_clients >>
    [] i = "eth" -> << st.eth_status, st.eth_ip_info >>

\* a step of the handler leaves the fields of every interface but the one
\* its event belongs to as they are
OthersUntouched ==
  \A i \in Interfaces :
    i # InterfaceOf(cur) => FieldsOf(s_status', i) = FieldsOf(s_status, i)

\* the events the retry counter is counted by: a disconnect of the station,
\* an address acquired on the station's handle
CountsRetries(e) ==
  \/ e.base = "WIFI_EVENT" /\ e.id = "WIFI_EVENT_STA_DISCONNECTED"
  \/ e.base = "IP_EVENT" /\ e.id = "IP_EVENT_GOT_IP" /\ e.netif = NETIF_STA

\* C34 as stated: a step of the handler changes the status, the address and
\* the client counter of no interface but the one its event belongs to, and
\* the retry counter changes only in a handler step for a STA disconnect or
\* a STA address-acquired event, or in the teardown run by start(), stop()
\* and deinit().
C34_InterfaceIsolation ==
  /\ [][ HandlerStep => OthersUntouched ]_vars
  /\ [][ s_sta_retry_count' # s_sta_retry_count
           => \/ HandlerStep /\ CountsRetries(cur)
              \/ ResetStep ]_vars

====
